---- MODULE Spec2Model ----
(***************************************************************************)
(* keet_8: a Chip-8 interpreter.  The module models the emulator core      *)
(* (memory, call stack, opcode decoder, Emulator::step and its handlers)   *)
(* and the host loop of lib.rs that feeds it key states and calls step().  *)
(***************************************************************************)
EXTENDS Integers, Sequences, FiniteSets, TLC

VARIABLES
    registers,        \* Emulator.registers: [u8; 16]
    idx,              \* Emulator.idx: u16
    program_counter,  \* Emulator.program_counter: u16
    delay_timer,      \* Emulator.delay_timer: u8
    sound_timer,      \* Emulator.sound_timer: u8
    stack,            \* Emulator.stack: CallStack {data, ptr}
    memory,           \* Emulator.memory: Memory.space, [u8; 4096]
    video_buffer,     \* Emulator.video_buffer: [u8; 64 * 32]
    keypad,           \* Emulator.keypad: [u8; 16]
    is_running,       \* Application.is_running
    result,           \* what the last call returned: [tag, val]
    overflow_checks   \* build profile: TRUE = arithmetic overflow panics

vars == << registers, idx, program_counter, delay_timer, sound_timer, stack,
           memory, video_buffer, keypad, is_running, result, overflow_checks >>

\* --- constants of the program ------------------------------------------------

NUM_REGISTERS == 16
NUM_KEYS == 16
VIDEO_BUFFER_WIDTH == 64
VIDEO_BUFFER_HEIGHT == 32
STACK_SIZE == 32
PROG_ADDR == 512
FONT_ADDR == 80
MEMORY_SIZE == 4096
FONTSET_SIZE == 80

U16 == 65536
U8 == 256

FONTSET ==
    << 240, 144, 144, 144, 240,
        32,  96,  32,  32, 112,
       240,  16, 240, 128, 240,
       240,  16, 240,  16, 240,
       144, 144, 240,  16,  16,
       240, 128, 240,  16, 240,
       240, 128, 240, 144, 240,
       240,  16,  32,  64,  64,
       240, 144, 240, 144, 240,
       240, 144, 240,  16, 240,
       240, 144, 240, 144, 144,
       224, 144, 224, 144, 224,
       240, 128, 128, 128, 240,
       224, 144, 144, 144, 224,
       240, 128, 240, 128, 240,
       240, 128, 240, 128, 128 >>

\* --- integer arithmetic of the build -------------------------------------------

\* The value that stands for a panic (arithmetic overflow with overflow checks
\* on, or an index out of bounds): the call never returns.
PANIC == -1

\* a + b on u16: wraps in a build without overflow checks, panics with them.
add_u16(a, b) ==
    IF a + b < U16 THEN a + b
    ELSE IF overflow_checks THEN PANIC ELSE (a + b) % U16

\* a - b on u16: wraps in a build without overflow checks, panics with them.
sub_u16(a, b) ==
    IF a >= b THEN a - b
    ELSE IF overflow_checks THEN PANIC ELSE (a - b + U16) % U16

\* --- stack.rs --------------------------------------------------------------------

CallStack_new == [data |-> [i \in 0..(STACK_SIZE - 1) |-> 0], ptr |-> 0]

\* a variant: push that tests for the full stack one slot too late
push_full_off_by_one(s, addr) ==
    IF s.ptr = STACK_SIZE + 1
    THEN [stack |-> s, tag |-> "CallStackFull"]
    ELSE [stack |-> [data |-> [i \in 0..(STACK_SIZE - 1) |->
                                  IF i = s.ptr THEN addr ELSE s.data[i]],
                     ptr |-> s.ptr + 1],
          tag |-> "Ok"]

\* CallStack::push: Err(CallStackFull) at ptr = STACK_SIZE, else store and bump.
push(s, addr) ==
    IF s.ptr = STACK_SIZE
    THEN [stack |-> s, tag |-> "CallStackFull"]
    ELSE [stack |-> [data |-> [s.data EXCEPT ![s.ptr] = addr],
                     ptr |-> s.ptr + 1],
          tag |-> "Ok"]

\* a variant: pop that returns the oldest address instead of the newest
pop_bottom(s) ==
    IF s.ptr = 0
    THEN [stack |-> s, tag |-> "None", val |-> 0]
    ELSE [stack |-> [s EXCEPT !.ptr = s.ptr - 1],
          tag |-> "Some", val |-> s.data[0]]

\* a variant: pop that returns the top address and leaves it on the stack
pop_keeps_depth(s) ==
    IF s.ptr = 0
    THEN [stack |-> s, tag |-> "None", val |-> 0]
    ELSE [stack |-> s, tag |-> "Some", val |-> s.data[s.ptr - 1]]

\* CallStack::pop: None at ptr = 0, else decrement and return data[ptr].
pop(s) ==
    IF s.ptr = 0
    THEN [stack |-> s, tag |-> "None", val |-> 0]
    ELSE [stack |-> [s EXCEPT !.ptr = s.ptr - 1],
          tag |-> "Some", val |-> s.data[s.ptr - 1]]

\* --- memory.rs -------------------------------------------------------------------

\* load_font: the glyph table copied to FONT_ADDR.
load_font(buffer) ==
    [a \in 0..(MEMORY_SIZE - 1) |->
        IF a >= FONT_ADDR /\ a < FONT_ADDR + FONTSET_SIZE
        THEN FONTSET[a - FONT_ADDR + 1]
        ELSE buffer[a]]

\* a variant: Memory::new that copies the ROM to address 0
Memory_new_at_zero(bytes) ==
    IF PROG_ADDR + Len(bytes) > MEMORY_SIZE
    THEN PANIC
    ELSE load_font([a \in 0..(MEMORY_SIZE - 1) |->
                      IF a < Len(bytes) THEN bytes[a + 1] ELSE 0])

\* Memory::new on the bytes read from the ROM file: the ROM at PROG_ADDR, then
\* the font.  A ROM that does not fit indexes space[] out of bounds: a panic.
Memory_new(bytes) ==
    IF PROG_ADDR + Len(bytes) > MEMORY_SIZE
    THEN PANIC
    ELSE load_font([a \in 0..(MEMORY_SIZE - 1) |->
                      IF a >= PROG_ADDR /\ a < PROG_ADDR + Len(bytes)
                      THEN bytes[a - PROG_ADDR + 1]
                      ELSE 0])

\* a variant: IndexMut that masks the address to 11 bits
index_mut_mask_11(space, addr, val) == [space EXCEPT ![addr % (MEMORY_SIZE \div 2)] = val]

\* impl Index<u16> for Memory: the address masked to 12 bits.
index(space, addr) == space[addr % MEMORY_SIZE]

\* impl IndexMut<u16> for Memory, used as memory[addr] = val.
index_mut(space, addr, val) == [space EXCEPT ![addr % MEMORY_SIZE] = val]

\* --- bit operations of the machine integers ---------------------------------------

RECURSIVE BitAnd(_, _)
\* a & b
BitAnd(a, b) ==
    IF a = 0 \/ b = 0 THEN 0
    ELSE 2 * BitAnd(a \div 2, b \div 2) + (IF a % 2 = 1 /\ b % 2 = 1 THEN 1 ELSE 0)

RECURSIVE BitOr(_, _)
\* a | b
BitOr(a, b) ==
    IF a = 0 THEN b
    ELSE IF b = 0 THEN a
    ELSE 2 * BitOr(a \div 2, b \div 2) + (IF a % 2 = 1 \/ b % 2 = 1 THEN 1 ELSE 0)

RECURSIVE BitXor(_, _)
\* a ^ b
BitXor(a, b) ==
    IF a = 0 THEN b
    ELSE IF b = 0 THEN a
    ELSE 2 * BitXor(a \div 2, b \div 2) + (IF a % 2 # b % 2 THEN 1 ELSE 0)

RECURSIVE Pow2(_)
Pow2(k) == IF k = 0 THEN 1 ELSE 2 * Pow2(k - 1)

\* a >> k
ShiftRight(a, k) == a \div Pow2(k)

\* --- opcode.rs -------------------------------------------------------------------

\* a variant: y! without its shift
y_unshifted(raw) == BitAnd(raw, 240)

\* macros instr!, x!, y!, n!, kk!, nnn!
instr(raw) == BitAnd(raw, 61440)
x(raw) == ShiftRight(BitAnd(raw, 3840), 8)
y(raw) == ShiftRight(BitAnd(raw, 240), 4)
n(raw) == BitAnd(raw, 15)
kk(raw) == BitAnd(raw, 255)
nnn(raw) == BitAnd(raw, 4095)

\* enum Instruction, #[repr(usize)]: the discriminants index Emulator.instructions
RAW == 0
CLS == 1
RET == 2
SYS == 3
JP == 4
CALL == 5
SE == 6
SNE == 7
LD == 8
ADD == 9
OR == 10
AND == 11
XOR == 12
SUB == 13
SHR == 14
SUBN == 15
SHL == 16
RND == 17
DRW == 18
SKP == 19
SKNP == 20

\* enum AddressMode: one record shape per variant
AM_None == [mode |-> "None"]
AM_OpCode(opcode) == [mode |-> "OpCode", opcode |-> opcode]
AM_Addr(address) == [mode |-> "Addr", address |-> address]
AM_VxByte(vx, byte) == [mode |-> "VxByte", x |-> vx, byte |-> byte]
AM_VxVy(vx, vy) == [mode |-> "VxVy", x |-> vx, y |-> vy]
AM_IAddr(address) == [mode |-> "IAddr", address |-> address]
AM_V0Addr(address) == [mode |-> "V0Addr", address |-> address]
AM_VxVyN(vx, vy, nibble) == [mode |-> "VxVyN", x |-> vx, y |-> vy, nibble |-> nibble]
AM_Vx(tag, vx) == [mode |-> tag, x |-> vx]

OpCode(i, am) == [instr |-> i, address_mode |-> am]

\* OpCode::raw
OpCode_raw(opcode) == OpCode(RAW, AM_OpCode(opcode))

\* impl From<u16> for OpCode, group 0x0000
from_0(raw) ==
    LET lo == BitAnd(raw, 255) IN
    CASE lo = 224 -> OpCode(CLS, AM_None)
      [] lo = 238 -> OpCode(RET, AM_None)
      [] OTHER -> OpCode_raw(raw)

\* impl From<u16> for OpCode, group 0x8000
from_8(raw) ==
    LET lo == BitAnd(raw, 15)
        am == AM_VxVy(x(raw), y(raw))
    IN
    CASE lo = 0 -> OpCode(LD, am)
      [] lo = 1 -> OpCode(OR, am)
      [] lo = 2 -> OpCode(AND, am)
      [] lo = 3 -> OpCode(XOR, am)
      [] lo = 4 -> OpCode(ADD, am)
      [] lo = 5 -> OpCode(SUB, am)
      [] lo = 6 -> OpCode(SHR, am)
      [] lo = 7 -> OpCode(SUBN, am)
      [] lo = 14 -> OpCode(SHL, am)
      [] OTHER -> OpCode_raw(raw)

\* a variant: group 0xE000 decoded with the payload of 3xkk
from_E_byte_payload(raw) ==
    LET lo == BitAnd(raw, 255) IN
    CASE lo = 145 -> OpCode(SKP, AM_VxByte(x(raw), kk(raw)))
      [] lo = 161 -> OpCode(SKNP, AM_VxByte(x(raw), kk(raw)))
      [] OTHER -> OpCode_raw(raw)

\* impl From<u16> for OpCode, group 0xE000
from_E(raw) ==
    LET lo == BitAnd(raw, 255) IN
    CASE lo = 145 -> OpCode(SKP, AM_Vx("Vx", x(raw)))
      [] lo = 161 -> OpCode(SKNP, AM_Vx("Vx", x(raw)))
      [] OTHER -> OpCode_raw(raw)

\* impl From<u16> for OpCode, group 0xF000
from_F(raw) ==
    LET lo == BitAnd(raw, 255) IN
    CASE lo = 7 -> OpCode(LD, AM_Vx("VxDt", x(raw)))
      [] lo = 10 -> OpCode(LD, AM_Vx("VxKey", x(raw)))
      [] lo = 21 -> OpCode(LD, AM_Vx("DtVx", x(raw)))
      [] lo = 24 -> OpCode(LD, AM_Vx("StVx", x(raw)))
      [] lo = 30 -> OpCode(ADD, AM_Vx("IVx", x(raw)))
      [] lo = 41 -> OpCode(LD, AM_Vx("FontVx", x(raw)))
      [] lo = 51 -> OpCode(LD, AM_Vx("BcdVx", x(raw)))
      [] lo = 85 -> OpCode(LD, AM_Vx("AddrIVx", x(raw)))
      [] lo = 101 -> OpCode(LD, AM_Vx("VxAddrI", x(raw)))
      [] OTHER -> OpCode_raw(raw)

\* impl From<u16> for OpCode
from(raw) ==
    LET g == instr(raw) IN
    CASE g = 0 -> from_0(raw)
      [] g = 4096 -> OpCode(JP, AM_Addr(nnn(raw)))
      [] g = 8192 -> OpCode(CALL, AM_Addr(nnn(raw)))
      [] g = 12288 -> OpCode(SE, AM_VxByte(x(raw), kk(raw)))
      [] g = 16384 -> OpCode(SNE, AM_VxByte(x(raw), kk(raw)))
      [] g = 20480 -> OpCode(SE, AM_VxVy(x(raw), y(raw)))
      [] g = 24576 -> OpCode(LD, AM_VxByte(x(raw), kk(raw)))
      [] g = 28672 -> OpCode(ADD, AM_VxByte(x(raw), kk(raw)))
      [] g = 32768 -> from_8(raw)
      [] g = 36864 -> OpCode(SNE, AM_VxVy(x(raw), y(raw)))
      [] g = 40960 -> OpCode(LD, AM_IAddr(nnn(raw)))
      [] g = 45056 -> OpCode(JP, AM_V0Addr(nnn(raw)))
      [] g = 49152 -> OpCode(RND, AM_VxByte(x(raw), kk(raw)))
      [] g = 53248 -> OpCode(DRW, AM_VxVyN(x(raw), y(raw), n(raw)))
      [] g = 57344 -> from_E(raw)
      [] g = 61440 -> from_F(raw)
      [] OTHER -> OpCode_raw(raw)

\* --- emulator/mod.rs: the handlers -------------------------------------------------
\* An emulator value e is the record of the Emulator's fields.  A handler returns
\* [emu, res]: the fields when it returned and Ok, an error of Keet8Error, or Panic.

Ok(e) == [emu |-> e, res |-> "Ok"]
Err(e, kind) == [emu |-> e, res |-> kind]
Panic(e) == [emu |-> e, res |-> "Panic"]

\* Err(Keet8Error::InvalidAddressMode(..)), the fallback arm of every handler
InvalidAddressMode(e) == Err(e, "InvalidAddressMode")

\* a variant: a fallback that resets the index register
raw_resets_index(e, opcode) == Ok([e EXCEPT !.idx = 0])

\* Emulator::raw
raw(e, opcode) == Ok(e)

\* Emulator::cls
cls(e, opcode) ==
    Ok([e EXCEPT !.video_buffer =
           [i \in 0..(VIDEO_BUFFER_WIDTH * VIDEO_BUFFER_HEIGHT - 1) |-> 0]])

\* a variant: ret that pops and forgets to jump
ret_keep_pc(e, opcode) ==
    LET p == pop(e.stack) IN
    IF p.tag = "Some"
    THEN Ok([e EXCEPT !.stack = p.stack])
    ELSE Err([e EXCEPT !.stack = p.stack], "CallStackEmpty")

\* Emulator::ret
ret(e, opcode) ==
    LET p == pop(e.stack) IN
    IF p.tag = "Some"
    THEN Ok([e EXCEPT !.stack = p.stack, !.program_counter = p.val])
    ELSE Err([e EXCEPT !.stack = p.stack], "CallStackEmpty")

\* Emulator::sys
sys(e, opcode) == Ok(e)

\* a variant: a jump with offset that keeps 12 bits of V0 + nnn
jp_offset_masked(e, opcode) ==
    LET am == opcode.address_mode IN
    CASE am.mode = "Addr" -> Ok([e EXCEPT !.program_counter = am.address])
      [] am.mode = "V0Addr" ->
            Ok([e EXCEPT !.program_counter = (e.registers[0] + am.address) % MEMORY_SIZE])
      [] OTHER -> InvalidAddressMode(e)

\* Emulator::jp
jp(e, opcode) ==
    LET am == opcode.address_mode IN
    CASE am.mode = "Addr" -> Ok([e EXCEPT !.program_counter = am.address])
      [] am.mode = "V0Addr" ->
            Ok([e EXCEPT !.program_counter = e.registers[0] + am.address])
      [] OTHER -> InvalidAddressMode(e)

\* a variant: call that has jumped already when the push fails
call_jump_first(e, opcode) ==
    LET am == opcode.address_mode IN
    IF am.mode = "Addr"
    THEN LET p == push(e.stack, e.program_counter) IN
         IF p.tag = "Ok"
         THEN Ok([e EXCEPT !.stack = p.stack, !.program_counter = am.address])
         ELSE Err([e EXCEPT !.stack = p.stack, !.program_counter = am.address], p.tag)
    ELSE InvalidAddressMode(e)

\* a variant: call that pushes the address of the call itself
call_pushes_call_site(e, opcode) ==
    LET am == opcode.address_mode IN
    IF am.mode = "Addr"
    THEN LET p == push(e.stack, e.program_counter - 2) IN
         IF p.tag = "Ok"
         THEN Ok([e EXCEPT !.stack = p.stack, !.program_counter = am.address])
         ELSE Err([e EXCEPT !.stack = p.stack], p.tag)
    ELSE InvalidAddressMode(e)

\* Emulator::call
call(e, opcode) ==
    LET am == opcode.address_mode IN
    IF am.mode = "Addr"
    THEN LET p == push(e.stack, e.program_counter) IN
         IF p.tag = "Ok"
         THEN Ok([e EXCEPT !.stack = p.stack, !.program_counter = am.address])
         ELSE Err([e EXCEPT !.stack = p.stack], p.tag)
    ELSE InvalidAddressMode(e)

\* `self.program_counter += 2` of the skip handlers
skip(e, cond) ==
    IF cond
    THEN LET pc == add_u16(e.program_counter, 2) IN
         IF pc = PANIC THEN Panic(e) ELSE Ok([e EXCEPT !.program_counter = pc])
    ELSE Ok(e)

\* Emulator::se
se(e, opcode) ==
    LET am == opcode.address_mode IN
    CASE am.mode = "VxByte" -> skip(e, e.registers[am.x] = am.byte)
      [] am.mode = "VxVy" -> skip(e, e.registers[am.x] = e.registers[am.y])
      [] OTHER -> InvalidAddressMode(e)

\* Emulator::sne
sne(e, opcode) ==
    LET am == opcode.address_mode IN
    CASE am.mode = "VxByte" -> skip(e, e.registers[am.x] # am.byte)
      [] am.mode = "VxVy" -> skip(e, e.registers[am.x] # e.registers[am.y])
      [] OTHER -> InvalidAddressMode(e)

RECURSIVE first_key(_, _)
\* the scan `for i in 0..NUM_KEYS { if self.keypad[i] > 0 { .. break } }` of
\* Emulator::ld: the first pressed key from i on, NUM_KEYS when none is.
first_key(kp, i) ==
    IF i = NUM_KEYS THEN NUM_KEYS
    ELSE IF kp[i] > 0 THEN i
    ELSE first_key(kp, i + 1)

\* a variant: the wait for a key that lets the program go on with no key pressed
ld_VxKey_never_rewinds(e, vx) ==
    LET k == first_key(e.keypad, 0) IN
    IF k < NUM_KEYS
    THEN Ok([e EXCEPT !.registers[vx] = k])
    ELSE Ok(e)

\* a variant: the wait for a key that takes the highest pressed key
ld_VxKey_last_key(e, vx) ==
    LET pressed == {i \in 0..(NUM_KEYS - 1) : e.keypad[i] > 0} IN
    IF pressed # {}
    THEN Ok([e EXCEPT !.registers[vx] =
                 CHOOSE i \in pressed : \A j \in pressed : j <= i])
    ELSE LET pc == sub_u16(e.program_counter, 2) IN
         IF pc = PANIC THEN Panic(e) ELSE Ok([e EXCEPT !.program_counter = pc])

\* a variant: the wait for a key that rewinds with a key pressed too
ld_VxKey_always_rewinds(e, vx) ==
    LET k == first_key(e.keypad, 0)
        pc == sub_u16(e.program_counter, 2)
    IN
    IF pc = PANIC THEN Panic(e)
    ELSE IF k < NUM_KEYS
    THEN Ok([e EXCEPT !.registers[vx] = k, !.program_counter = pc])
    ELSE Ok([e EXCEPT !.program_counter = pc])

\* Emulator::ld, AddressMode::VxKey
ld_VxKey(e, vx) ==
    LET k == first_key(e.keypad, 0) IN
    IF k < NUM_KEYS
    THEN Ok([e EXCEPT !.registers[vx] = k])
    ELSE LET pc == sub_u16(e.program_counter, 2) IN
         IF pc = PANIC THEN Panic(e) ELSE Ok([e EXCEPT !.program_counter = pc])

\* a variant: the digits stored in the opposite order, ones at I
ld_BcdVx_ones_first(e, vx) ==
    LET value == e.registers[vx] IN
    IF e.idx + 2 >= U16 THEN Panic(e)
    ELSE Ok([e EXCEPT !.memory =
                index_mut(index_mut(index_mut(e.memory, e.idx, value % 10),
                                    e.idx + 1, (value \div 10) % 10),
                          e.idx + 2, value \div 100)])

\* Emulator::ld, AddressMode::BcdVx
ld_BcdVx(e, vx) ==
    LET value == e.registers[vx]
        a2 == add_u16(e.idx, 2)
        a1 == add_u16(e.idx, 1)
        a0 == add_u16(e.idx, 0)
    IN
    IF a2 = PANIC \/ a1 = PANIC \/ a0 = PANIC THEN Panic(e)
    ELSE LET m2 == index_mut(e.memory, a2, value % 10)
             m1 == index_mut(m2, a1, (value \div 10) % 10)
             m0 == index_mut(m1, a0, ((value \div 10) \div 10) % 10)
         IN Ok([e EXCEPT !.memory = m0])

RECURSIVE ld_AddrIVx_exclusive(_, _, _)
\* a variant: a dump of the registers 0..x-1, Vx left out
ld_AddrIVx_exclusive(e, vx, i) ==
    IF i >= vx THEN Ok(e)
    ELSE LET a == add_u16(e.idx, i) IN
         IF a = PANIC THEN Panic(e)
         ELSE ld_AddrIVx_exclusive(
                  [e EXCEPT !.memory = index_mut(e.memory, a, e.registers[i])],
                  vx, i + 1)

RECURSIVE ld_AddrIVx(_, _, _)
\* Emulator::ld, AddressMode::AddrIVx: (i..=x).for_each(memory[idx + i] = registers[i])
ld_AddrIVx(e, vx, i) ==
    IF i > vx THEN Ok(e)
    ELSE LET a == add_u16(e.idx, i) IN
         IF a = PANIC THEN Panic(e)
         ELSE ld_AddrIVx([e EXCEPT !.memory = index_mut(e.memory, a, e.registers[i])],
                         vx, i + 1)

RECURSIVE ld_VxAddrI(_, _, _)
\* Emulator::ld, AddressMode::VxAddrI: (i..=x).for_each(registers[i] = memory[idx + i])
ld_VxAddrI(e, vx, i) ==
    IF i > vx THEN Ok(e)
    ELSE LET a == add_u16(e.idx, i) IN
         IF a = PANIC THEN Panic(e)
         ELSE ld_VxAddrI([e EXCEPT !.registers[i] = index(e.memory, a)], vx, i + 1)

\* Emulator::ld
ld(e, opcode) ==
    LET am == opcode.address_mode IN
    CASE am.mode = "VxByte" -> Ok([e EXCEPT !.registers[am.x] = am.byte])
      [] am.mode = "VxVy" -> Ok([e EXCEPT !.registers[am.x] = e.registers[am.y]])
      [] am.mode = "IAddr" -> Ok([e EXCEPT !.idx = am.address])
      [] am.mode = "VxDt" -> Ok([e EXCEPT !.registers[am.x] = e.delay_timer])
      [] am.mode = "VxKey" -> ld_VxKey(e, am.x)
      [] am.mode = "DtVx" -> Ok([e EXCEPT !.delay_timer = e.registers[am.x]])
      [] am.mode = "StVx" -> Ok([e EXCEPT !.sound_timer = e.registers[am.x]])
      [] am.mode = "FontVx" ->
            Ok([e EXCEPT !.idx = FONT_ADDR + 5 * e.registers[am.x]])
      [] am.mode = "BcdVx" -> ld_BcdVx(e, am.x)
      [] am.mode = "AddrIVx" -> ld_AddrIVx(e, am.x, 0)
      [] am.mode = "VxAddrI" -> ld_VxAddrI(e, am.x, 0)
      [] OTHER -> InvalidAddressMode(e)

\* a variant: add whose register sum stays 8 bits wide, so the carry is never seen
add_sum_u8(e, opcode) ==
    LET am == opcode.address_mode IN
    CASE am.mode = "VxByte" ->
            Ok([e EXCEPT !.registers[am.x] = (e.registers[am.x] + am.byte) % U8])
      [] am.mode = "VxVy" ->
            LET sum == (e.registers[am.x] + e.registers[am.y]) % U8
                r1 == [e.registers EXCEPT ![15] = IF sum > 255 THEN 1 ELSE 0]
            IN Ok([e EXCEPT !.registers = [r1 EXCEPT ![am.x] = sum]])
      [] am.mode = "IVx" ->
            LET i == add_u16(e.idx, e.registers[am.x]) IN
            IF i = PANIC THEN Panic(e) ELSE Ok([e EXCEPT !.idx = i])
      [] OTHER -> InvalidAddressMode(e)

\* Emulator::add
add(e, opcode) ==
    LET am == opcode.address_mode IN
    CASE am.mode = "VxByte" ->
            Ok([e EXCEPT !.registers[am.x] = (e.registers[am.x] + am.byte) % U8])
      [] am.mode = "VxVy" ->
            LET sum == e.registers[am.x] + e.registers[am.y]
                r1 == [e.registers EXCEPT ![15] = IF sum > 255 THEN 1 ELSE 0]
            IN Ok([e EXCEPT !.registers = [r1 EXCEPT ![am.x] = BitAnd(sum, 255)]])
      [] am.mode = "IVx" ->
            LET i == add_u16(e.idx, e.registers[am.x]) IN
            IF i = PANIC THEN Panic(e) ELSE Ok([e EXCEPT !.idx = i])
      [] OTHER -> InvalidAddressMode(e)

\* a variant: or that clears VF after the operation
or_resets_vf(e, opcode) ==
    LET am == opcode.address_mode IN
    IF am.mode = "VxVy"
    THEN Ok([e EXCEPT !.registers =
                [[e.registers EXCEPT ![am.x] = BitOr(e.registers[am.x], e.registers[am.y])]
                    EXCEPT ![15] = 0]])
    ELSE InvalidAddressMode(e)

\* Emulator::or
or(e, opcode) ==
    LET am == opcode.address_mode IN
    IF am.mode = "VxVy"
    THEN Ok([e EXCEPT !.registers[am.x] = BitOr(e.registers[am.x], e.registers[am.y])])
    ELSE InvalidAddressMode(e)

\* Emulator::and
and(e, opcode) ==
    LET am == opcode.address_mode IN
    IF am.mode = "VxVy"
    THEN Ok([e EXCEPT !.registers[am.x] = BitAnd(e.registers[am.x], e.registers[am.y])])
    ELSE InvalidAddressMode(e)

\* Emulator::xor
xor(e, opcode) ==
    LET am == opcode.address_mode IN
    IF am.mode = "VxVy"
    THEN Ok([e EXCEPT !.registers[am.x] = BitXor(e.registers[am.x], e.registers[am.y])])
    ELSE InvalidAddressMode(e)

\* Emulator::sub
sub(e, opcode) ==
    LET am == opcode.address_mode IN
    IF am.mode = "VxVy"
    THEN LET r1 == [e.registers EXCEPT
                       ![15] = IF e.registers[am.x] > e.registers[am.y] THEN 1 ELSE 0]
         IN Ok([e EXCEPT !.registers =
                   [r1 EXCEPT ![am.x] = (r1[am.x] - r1[am.y] + U8) % U8]])
    ELSE InvalidAddressMode(e)

\* a variant: shr that takes the flag from the shifted value
shr_flag_after(e, opcode) ==
    LET am == opcode.address_mode IN
    IF am.mode = "VxVy"
    THEN LET r1 == [e.registers EXCEPT ![am.x] = ShiftRight(e.registers[am.x], 1)]
         IN Ok([e EXCEPT !.registers = [r1 EXCEPT ![15] = BitAnd(r1[am.x], 1)]])
    ELSE InvalidAddressMode(e)

\* Emulator::shr
shr(e, opcode) ==
    LET am == opcode.address_mode IN
    IF am.mode = "VxVy"
    THEN LET r1 == [e.registers EXCEPT ![15] = BitAnd(e.registers[am.x], 1)]
         IN Ok([e EXCEPT !.registers = [r1 EXCEPT ![am.x] = ShiftRight(r1[am.x], 1)]])
    ELSE InvalidAddressMode(e)

\* Emulator::subn
subn(e, opcode) ==
    LET am == opcode.address_mode IN
    IF am.mode = "VxVy"
    THEN LET r1 == [e.registers EXCEPT
                       ![15] = IF e.registers[am.y] > e.registers[am.x] THEN 1 ELSE 0]
         IN Ok([e EXCEPT !.registers =
                   [r1 EXCEPT ![am.x] = (r1[am.y] - r1[am.x] + U8) % U8]])
    ELSE InvalidAddressMode(e)

\* Emulator::shl
shl(e, opcode) ==
    LET am == opcode.address_mode IN
    IF am.mode = "VxVy"
    THEN LET r1 == [e.registers EXCEPT
                       ![15] = ShiftRight(BitAnd(e.registers[am.x], 128), 7)]
         IN Ok([e EXCEPT !.registers = [r1 EXCEPT ![am.x] = (r1[am.x] * 2) % U8]])
    ELSE InvalidAddressMode(e)

\* Emulator::rnd; random is the byte rand::random::<u8>() returned
rnd(e, opcode, random) ==
    LET am == opcode.address_mode IN
    IF am.mode = "VxByte"
    THEN Ok([e EXCEPT !.registers[am.x] = BitAnd(random, am.byte)])
    ELSE InvalidAddressMode(e)

RECURSIVE drw_row_low_bit(_, _, _, _, _, _)
\* a variant: the inner loop of a draw that toggles the low bit of a cell only
drw_row_low_bit(e, sprite, xp, yp, r, c) ==
    IF c >= 8 THEN Ok(e)
    ELSE LET sprite_px == BitAnd(sprite, ShiftRight(128, c))
             screen_idx == (yp + r) * VIDEO_BUFFER_WIDTH + (xp + c)
         IN
         IF sprite_px > 0
         THEN IF screen_idx >= VIDEO_BUFFER_WIDTH * VIDEO_BUFFER_HEIGHT
              THEN Panic(e)
              ELSE drw_row_low_bit([e EXCEPT
                                       !.video_buffer[screen_idx] =
                                           BitXor(e.video_buffer[screen_idx], 1)],
                                   sprite, xp, yp, r, c + 1)
         ELSE drw_row_low_bit(e, sprite, xp, yp, r, c + 1)

RECURSIVE drw_row(_, _, _, _, _, _)
\* the inner loop `for c in 0..8 { .. }` of Emulator::drw for row r, from column c on
drw_row(e, sprite, xp, yp, r, c) ==
    IF c >= 8 THEN Ok(e)
    ELSE LET sprite_px == BitAnd(sprite, ShiftRight(128, c))
             screen_idx == (yp + r) * VIDEO_BUFFER_WIDTH + (xp + c)
         IN
         IF sprite_px > 0
         THEN IF screen_idx >= VIDEO_BUFFER_WIDTH * VIDEO_BUFFER_HEIGHT
              THEN Panic(e)
              ELSE LET vf == IF e.video_buffer[screen_idx] = 255
                             THEN 1 ELSE e.registers[15]
                   IN drw_row([e EXCEPT
                                  !.registers[15] = vf,
                                  !.video_buffer[screen_idx] =
                                      BitXor(e.video_buffer[screen_idx], 255)],
                              sprite, xp, yp, r, c + 1)
         ELSE drw_row(e, sprite, xp, yp, r, c + 1)

RECURSIVE drw_loop(_, _, _, _, _)
\* the outer loop `for r in 0..height { .. }` of Emulator::drw, from row r on
drw_loop(e, xp, yp, height, r) ==
    IF r >= height THEN Ok(e)
    ELSE LET a == add_u16(e.idx, r) IN
         IF a = PANIC THEN Panic(e)
         ELSE LET row == drw_row(e, index(e.memory, a), xp, yp, r, 0) IN
              IF row.res # "Ok" THEN row
              ELSE drw_loop(row.emu, xp, yp, height, r + 1)

\* a variant: a draw that does not reset VF before its loops
drw_keeps_vf(e, opcode) ==
    LET am == opcode.address_mode IN
    IF am.mode = "VxVyN"
    THEN LET xp == e.registers[am.x] % VIDEO_BUFFER_WIDTH
             yp == e.registers[am.y] % VIDEO_BUFFER_HEIGHT
         IN drw_loop(e, xp, yp, am.nibble, 0)
    ELSE InvalidAddressMode(e)

\* Emulator::drw
drw(e, opcode) ==
    LET am == opcode.address_mode IN
    IF am.mode = "VxVyN"
    THEN LET xp == e.registers[am.x] % VIDEO_BUFFER_WIDTH
             yp == e.registers[am.y] % VIDEO_BUFFER_HEIGHT
         IN drw_loop([e EXCEPT !.registers[15] = 0], xp, yp, am.nibble, 0)
    ELSE InvalidAddressMode(e)

\* `self.keypad[key as usize]` of skp and sknp: out of bounds from key 16 on
key_down(e, key) == IF key >= NUM_KEYS THEN PANIC ELSE e.keypad[key]

\* Emulator::skp
skp(e, opcode) ==
    LET am == opcode.address_mode IN
    IF am.mode = "Vx"
    THEN LET v == key_down(e, e.registers[am.x]) IN
         IF v = PANIC THEN Panic(e) ELSE skip(e, v > 0)
    ELSE InvalidAddressMode(e)

\* Emulator::sknp
sknp(e, opcode) ==
    LET am == opcode.address_mode IN
    IF am.mode = "Vx"
    THEN LET v == key_down(e, e.registers[am.x]) IN
         IF v = PANIC THEN Panic(e) ELSE skip(e, v <= 0)
    ELSE InvalidAddressMode(e)

\* --- emulator/mod.rs: step ------------------------------------------------------------

\* Emulator.instructions, the handler table built by Emulator::new
instructions ==
    << "raw", "cls", "ret", "sys", "jp", "call", "se", "sne", "ld", "add", "or",
       "and", "xor", "sub", "shr", "subn", "shl", "rnd", "drw", "skp", "sknp" >>

\* self.instructions[opcode.instr as usize](self, opcode)
dispatch(e, opcode, random) ==
    IF opcode.instr + 1 > Len(instructions) THEN Panic(e)
    ELSE LET h == instructions[opcode.instr + 1] IN
         CASE h = "raw" -> raw(e, opcode)
           [] h = "cls" -> cls(e, opcode)
           [] h = "ret" -> ret(e, opcode)
           [] h = "sys" -> sys(e, opcode)
           [] h = "jp" -> jp(e, opcode)
           [] h = "call" -> call(e, opcode)
           [] h = "se" -> se(e, opcode)
           [] h = "sne" -> sne(e, opcode)
           [] h = "ld" -> ld(e, opcode)
           [] h = "add" -> add(e, opcode)
           [] h = "or" -> or(e, opcode)
           [] h = "and" -> and(e, opcode)
           [] h = "xor" -> xor(e, opcode)
           [] h = "sub" -> sub(e, opcode)
           [] h = "shr" -> shr(e, opcode)
           [] h = "subn" -> subn(e, opcode)
           [] h = "shl" -> shl(e, opcode)
           [] h = "rnd" -> rnd(e, opcode, random)
           [] h = "drw" -> drw(e, opcode)
           [] h = "skp" -> skp(e, opcode)
           [] h = "sknp" -> sknp(e, opcode)

\* a variant: the word fetched low byte first
fetch_little_endian(e) ==
    LET pc1 == add_u16(e.program_counter, 1) IN
    IF pc1 = PANIC THEN PANIC
    ELSE BitOr(index(e.memory, pc1) * 256, index(e.memory, e.program_counter))

\* the word step() fetches: (memory[pc] << 8) | memory[pc + 1]; PANIC when pc + 1
\* overflows in a build with overflow checks
fetch(e) ==
    LET pc1 == add_u16(e.program_counter, 1) IN
    IF pc1 = PANIC THEN PANIC
    ELSE BitOr(index(e.memory, e.program_counter) * 256, index(e.memory, pc1))

\* a variant: timers decremented without the test for zero
tick_timers_unguarded(e) ==
    [e EXCEPT !.delay_timer = (e.delay_timer + U8 - 1) % U8,
              !.sound_timer = (e.sound_timer + U8 - 1) % U8]

\* the timer decrements that end step()
tick_timers(e) ==
    [e EXCEPT !.delay_timer = IF e.delay_timer > 0 THEN e.delay_timer - 1
                              ELSE e.delay_timer,
              !.sound_timer = IF e.sound_timer > 0 THEN e.sound_timer - 1
                              ELSE e.sound_timer]

\* Emulator::step
step(e, random) ==
    LET word == fetch(e)
        pc2 == add_u16(e.program_counter, 2)
    IN
    IF word = PANIC \/ pc2 = PANIC THEN Panic(e)
    ELSE LET r == dispatch([e EXCEPT !.program_counter = pc2], from(word), random)
         IN IF r.res # "Ok" THEN r ELSE Ok(tick_timers(r.emu))

\* Emulator::set_key
set_key(e, key, val) == [e EXCEPT !.keypad[key] = val]

\* Emulator::new on the bytes of the ROM file (Memory::new did not fail)
Emulator_new(bytes) ==
    [registers |-> [i \in 0..(NUM_REGISTERS - 1) |-> 0],
     idx |-> 0,
     program_counter |-> PROG_ADDR,
     delay_timer |-> 0,
     sound_timer |-> 0,
     stack |-> CallStack_new,
     memory |-> Memory_new(bytes),
     video_buffer |-> [i \in 0..(VIDEO_BUFFER_WIDTH * VIDEO_BUFFER_HEIGHT - 1) |-> 0],
     keypad |-> [i \in 0..(NUM_KEYS - 1) |-> 0]]

\* --- lib.rs: the host loop --------------------------------------------------------------

\* the Emulator the Application owns, as a value
Self ==
    [registers |-> registers, idx |-> idx, program_counter |-> program_counter,
     delay_timer |-> delay_timer, sound_timer |-> sound_timer, stack |-> stack,
     memory |-> memory, video_buffer |-> video_buffer, keypad |-> keypad]

\* the assignment of an Emulator value to the state
Becomes(e) ==
    /\ registers' = e.registers
    /\ idx' = e.idx
    /\ program_counter' = e.program_counter
    /\ delay_timer' = e.delay_timer
    /\ sound_timer' = e.sound_timer
    /\ stack' = e.stack
    /\ memory' = e.memory
    /\ video_buffer' = e.video_buffer
    /\ keypad' = e.keypad

RECURSIVE process_input_from(_, _, _)
\* Application::process_input from key k on: set_key(k, is_key_down(KEYBOARD_KEY[k]) as u8)
process_input_from(e, down, k) ==
    IF k = NUM_KEYS THEN e
    ELSE process_input_from(set_key(e, k, IF k \in down THEN 1 ELSE 0), down, k + 1)

\* Application::process_input; down is the set of keys the keyboard holds down
process_input(e, down) == process_input_from(e, down, 0)

\* what rand::random::<u8>() can return to the step about to run
RandomBytes(e) ==
    LET word == fetch(e) IN
    IF word # PANIC /\ from(word).instr = RND THEN 0..(U8 - 1) ELSE {0}

\* a variant: a loop that goes on after step() has returned an error
InLoop_after_error == is_running

\* Application::run is in its loop: still running and no `?` has returned an error
InLoop == is_running /\ result.tag \in {"None", "Ok"}

\* Application::on_update when curr_time >= EMU_STEP_DELAY: process_input, step()?,
\* then the window_should_close check (not reached when step failed)
on_update_step(down, random, close) ==
    /\ InLoop
    /\ \E r \in {step(process_input(Self, down), random)} :
         /\ Becomes(r.emu)
         /\ result' = [tag |-> r.res, val |-> 0]
         /\ is_running' = IF r.res = "Ok" /\ close THEN FALSE ELSE is_running
    /\ UNCHANGED overflow_checks

\* Application::on_update when the frame only accumulates curr_time
on_update_idle(close) ==
    /\ InLoop
    /\ is_running' = IF close THEN FALSE ELSE is_running
    /\ UNCHANGED << registers, idx, program_counter, delay_timer, sound_timer, stack,
                    memory, video_buffer, keypad, result, overflow_checks >>

\* a frame of Application::run that steps, the keyboard holding one of chords
Frame(chords) ==
    \E down \in chords, close \in BOOLEAN :
        \E random \in RandomBytes(process_input(Self, down)) :
            on_update_step(down, random, close)

\* a frame of Application::run that does not step
IdleFrame == \E close \in BOOLEAN : on_update_idle(close)

\* --- the programs run ---------------------------------------------------------------------

\* how many keys of the keyboard the user touches
KeysUsed == 3

\* the keys the user touches: 0, 5, 10, 15, then 4, 9, ..
UsedKeys == {(5 * i) % NUM_KEYS : i \in 0..(KeysUsed - 1)}

\* what the keyboard can hold down when a frame polls it
HeldKeys == SUBSET UsedKeys
NoKeys == {{}}

\* big-endian bytes of a 16-bit word
Word(w) == << w \div 256, w % 256 >>

RECURSIVE Flatten(_)
Flatten(ws) == IF ws = << >> THEN << >> ELSE Word(Head(ws)) \o Flatten(Tail(ws))

RECURSIVE NestBlocks(_, _)
\* blocks i..k-1 of NestRom(k): CALL to the next block, then RET (block 0: JP self)
NestBlocks(i, k) ==
    IF i = k THEN << 238 >>   \* 0x00EE
    ELSE << 8192 + PROG_ADDR + 4 * (i + 1),
            IF i = 0 THEN 4096 + PROG_ADDR + 2 ELSE 238 >> \o NestBlocks(i + 1, k)

\* k nested calls from k different call sites, then k returns, then a halt loop
NestRom(k) == Flatten(NestBlocks(0, k))

\* 22 08 00 00 00 00 00 EE
ExampleCallRom == << 34, 8, 0, 0, 0, 0, 0, 238 >>

\* 22 00: CALL 0x200 at 0x200
RecurseRom == << 34, 0 >>

\* 00 EE: RET with nothing called
ReturnRom == << 0, 238 >>

\* 22 08 00 00 00 00 00 00 00 EE: the call of ExampleCallRom with the RET at 0x208
CallReturnRom == << 34, 8, 0, 0, 0, 0, 0, 0, 0, 238 >>

\* 60 10 E0 91: LD V0, 16, then SKP V0
KeyRangeRom == << 96, 16, 224, 145 >>

\* both timers loaded and read, then a wait for a key
TimerRom ==
    Flatten(<< 24579,    \* 6003  LD V0, 3
               61461,    \* F015  LD DT, V0
               24837,    \* 6105  LD V1, 5
               61720,    \* F118  LD ST, V1
               61959,    \* F207  LD V2, DT
               62218 >>) \* F30A  LD V3, K

\* one instruction of every kind while both timers run, then a wait for a key
TourRom ==
    Flatten(<< 24616,    \* 200: 6028  LD V0, 40
               61461,    \* 202: F015  LD DT, V0
               61464,    \* 204: F018  LD ST, V0
               224,      \* 206: 00E0  CLS
               8832,     \* 208: 2280  CALL 0x280 (zeros, then 00EE at 0x284)
               12328,    \* 20A: 3028  SE V0, 40
               0,        \* 20C: skipped
               16424,    \* 20E: 4028  SNE V0, 40
               24835,    \* 210: 6103  LD V1, 3
               20496,    \* 212: 5010  SE V0, V1
               36880,    \* 214: 9010  SNE V0, V1
               0,        \* 216: skipped
               28933,    \* 218: 7105  ADD V1, 5
               33296,    \* 21A: 8210  LD V2, V1
               32801,    \* 21C: 8021  OR V0, V2
               32786,    \* 21E: 8012  AND V0, V1
               32803,    \* 220: 8023  XOR V0, V2
               32788,    \* 222: 8014  ADD V0, V1
               32789,    \* 224: 8015  SUB V0, V1
               32790,    \* 226: 8016  SHR V0
               32791,    \* 228: 8017  SUBN V0, V1
               32798,    \* 22A: 801E  SHL V0
               49921,    \* 22C: C301  RND V3, 1
               41040,    \* 22E: A050  LD I, 0x050
               53541,    \* 230: D125  DRW V1, V2, 5
               25600,    \* 232: 6400  LD V4, 0
               58513,    \* 234: E491  SKP V4
               58529,    \* 236: E4A1  SKNP V4
               0,        \* 238: skipped
               62494,    \* 23A: F41E  ADD I, V4
               61993,    \* 23C: F229  LD F, V2
               41728,    \* 23E: A300  LD I, 0x300
               61747,    \* 240: F133  LD B, V1
               62549,    \* 242: F455  LD [I], V4
               62565,    \* 244: F465  LD V4, [I]
               62727,    \* 246: F507  LD V5, DT
               33023,    \* 248: 80FF  no such opcode
               24578,    \* 24A: 6002  LD V0, 2
               45646,    \* 24C: B24E  JP V0, 0x24E
               0,        \* 24E: jumped over
               4692,     \* 250: 1254  JP 0x254
               0,        \* 252: jumped over
               63242 >>  \* 254: F70A  LD V7, K
            \o [i \in 1..21 |-> 0]     \* 256..27F
            \o << 0, 0, 238 >>)        \* 280: 0000, 282: 0000, 284: 00EE

Roms ==
    {NestRom(k) : k \in 1..STACK_SIZE}
        \cup {ExampleCallRom, CallReturnRom, RecurseRom, ReturnRom, TimerRom, TourRom,
              KeyRangeRom}

InitWith(roms) ==
    /\ \E bytes \in roms : LET e == Emulator_new(bytes) IN
         /\ registers = e.registers
         /\ idx = e.idx
         /\ program_counter = e.program_counter
         /\ delay_timer = e.delay_timer
         /\ sound_timer = e.sound_timer
         /\ stack = e.stack
         /\ memory = e.memory
         /\ video_buffer = e.video_buffer
         /\ keypad = e.keypad
    /\ is_running = TRUE
    /\ result = [tag |-> "None", val |-> 0]
    /\ overflow_checks \in BOOLEAN

Init == InitWith(Roms)

StepFrame == Frame(NoKeys)

Next == StepFrame \/ IdleFrame

Spec == Init /\ [][Next]_vars

\* --- the programs that wait for a key -------------------------------------------------

\* Fx 0A, then a halt loop: 1202
WaitKeyRom(vx) == << 240 + vx, 10, 18, 2 >>

\* Fx 0A, then back to it: 1200
WaitLoopRom(vx) == << 240 + vx, 10, 18, 0 >>

KeyRoms == {WaitKeyRom(0), WaitLoopRom(5)}

InitKey == InitWith(KeyRoms)

KeyFrame == Frame(HeldKeys)

NextKey == KeyFrame \/ IdleFrame

SpecKey == InitKey /\ [][NextKey]_vars

\* --- the call stack on its own --------------------------------------------------------

\* below this depth a push may push any of Addrs; from it on, the address of its depth
MaxFreeDepth == 3

\* the addresses A, B, C pushed
Addrs == {514, 752, 4095}

\* CallStack::push(addr) called on the stack
Push(addr) ==
    /\ \E p \in {push(stack, addr)} :
         /\ stack' = p.stack
         /\ result' = [tag |-> p.tag, val |-> addr]
    /\ UNCHANGED << registers, idx, program_counter, delay_timer, sound_timer, memory,
                    video_buffer, keypad, is_running, overflow_checks >>

\* CallStack::pop() called on the stack
Pop ==
    /\ \E p \in {pop(stack)} :
         /\ stack' = p.stack
         /\ result' = [tag |-> p.tag, val |-> p.val]
    /\ UNCHANGED << registers, idx, program_counter, delay_timer, sound_timer, memory,
                    video_buffer, keypad, is_running, overflow_checks >>

PushAny ==
    \E addr \in (IF stack.ptr < MaxFreeDepth THEN Addrs
                 ELSE {PROG_ADDR + 2 * stack.ptr}) : Push(addr)

\* the stack of an emulator just built; CallStack does no arithmetic that can
\* overflow, so one build stands for both
InitStack == InitWith({<< >>}) /\ overflow_checks

NextStack == PushAny \/ Pop

SpecStack == InitStack /\ [][NextStack]_vars

\* --- what the claims speak of ---------------------------------------------------------

\* the keys the keypad holds pressed
Down == {k \in 0..(NUM_KEYS - 1) : keypad[k] > 0}

\* this transition is a frame that called step(): the keys it polled are the ones the
\* keypad holds after it
StepTaken ==
    \E random \in RandomBytes(process_input(Self, Down')) :
        on_update_step(Down', random, ~is_running')

\* the word at the program counter, big-endian
WordAtPc ==
    memory[program_counter % MEMORY_SIZE] * 256
        + memory[(program_counter + 1) % MEMORY_SIZE]

\* the instruction at the program counter, by its encoding
AtCall == WordAtPc \div 4096 = 2                       \* 2nnn
AtReturn == WordAtPc = 238                             \* 00EE
AtWaitKey == WordAtPc \div 4096 = 15 /\ WordAtPc % 256 = 10   \* Fx0A
AtLoadDelay == WordAtPc \div 4096 = 15 /\ WordAtPc % 256 = 21 \* Fx15
AtLoadSound == WordAtPc \div 4096 = 15 /\ WordAtPc % 256 = 24 \* Fx18
FieldX == (WordAtPc \div 256) % 16
FieldNnn == WordAtPc % 4096

\* the program bytes was loaded and has not been written over
Loaded(bytes) == memory = Memory_new(bytes)

\* step() returned one of its two call-stack errors
StackError == result.tag \in {"CallStackEmpty", "CallStackFull"}

\* everything of the data model but the program counter is as before the step
RestUnchanged ==
    /\ registers' = registers
    /\ idx' = idx
    /\ delay_timer' = delay_timer
    /\ sound_timer' = sound_timer
    /\ stack' = stack
    /\ memory' = memory
    /\ video_buffer' = video_buffer

\* --- the run that goes on ----------------------------------------------------------------

\* this transition is a frame of Application::run, stepping or not
FrameTaken == IdleFrame \/ (InLoop /\ StepTaken)

\* this transition is a frame that called step() with a key held down
PressedStep == Down' # {} /\ StepTaken

\* the user presses a key in the end: while the run goes on, frames that step with
\* a key held down keep coming
KeyComes == []<>(~InLoop) \/ []<><<PressedStep>>_vars

\* the loop of Application::run goes on calling on_update while is_running holds
SpecLive == SpecKey /\ WF_vars(FrameTaken) /\ KeyComes

\* --- C1 ---------------------------------------------------------------------------------

\* C1 as stated: whenever step() returns CallStackEmpty or CallStackFull, the program
\* counter, registers, index register, timers, call stack, memory and display all
\* equal their values before the call.
C1_ErrorLeavesAllUnchanged ==
    [][StepTaken /\ StackError' =>
          program_counter' = program_counter /\ RestUnchanged]_vars

\* C1 amended: whenever step() returns CallStackEmpty or CallStackFull, the
\* registers, index register, timers, call stack, memory and display equal their
\* values before the call, and the program counter is 2 above its value before the
\* call: the fetch advance stays applied.
C1_ErrorLeavesAllButPc ==
    [][StepTaken /\ StackError' =>
          program_counter' = program_counter + 2 /\ RestUnchanged]_vars

\* a Return on the empty stack has failed, the program counter past it
C1_Witness ==
    /\ result.tag = "CallStackEmpty"
    /\ program_counter = PROG_ADDR + 2
    /\ Loaded(ReturnRom)

\* --- C2 ---------------------------------------------------------------------------------

\* C2: a step that executes Fx0A while no key is pressed succeeds and leaves the
\* program counter, registers, index register, memory, call stack and display as
\* they were, so the same instruction is fetched by the next step.
C2_BlockedWaitKeepsState ==
    [][StepTaken /\ AtWaitKey /\ Down' = {} =>
          /\ result'.tag = "Ok"
          /\ program_counter' = program_counter
          /\ registers' = registers
          /\ idx' = idx
          /\ stack' = stack
          /\ memory' = memory
          /\ video_buffer' = video_buffer
          /\ AtWaitKey']_vars

\* a step has run Fx0A with no key pressed and the emulator is still at it
C2_Witness ==
    /\ result.tag = "Ok"
    /\ AtWaitKey
    /\ Down = {}
    /\ program_counter = PROG_ADDR

\* --- C3 ---------------------------------------------------------------------------------

\* C3: a step that executes Fx0A with at least one key pressed stores the lowest
\* pressed key index in Vx, changes no other register, and leaves the program
\* counter 2 past the instruction's address.
C3_WaitTakesLowestKey ==
    [][StepTaken /\ AtWaitKey /\ Down' # {} =>
          /\ result'.tag = "Ok"
          /\ registers'[FieldX] \in Down'
          /\ \A k \in Down' : registers'[FieldX] <= k
          /\ \A i \in 0..(NUM_REGISTERS - 1) : i # FieldX => registers'[i] = registers[i]
          /\ program_counter' = program_counter + 2]_vars

\* Fx0A has run with keys 5 and 10 pressed and stored 5
C3_Witness ==
    /\ program_counter = PROG_ADDR + 2
    /\ Down = {5, 10}
    /\ registers[0] = 5
    /\ Loaded(WaitKeyRom(0))

\* --- C4 ---------------------------------------------------------------------------------

\* C4: when the host goes on stepping and a step comes at which a key is pressed, an
\* interpreter waiting at Fx0A leaves it: the program counter gets 2 past the
\* instruction (or the window was closed and the run is over).
C4_WaitEnds ==
    (InLoop /\ AtWaitKey /\ program_counter = PROG_ADDR)
        ~> (program_counter = PROG_ADDR + 2 \/ ~InLoop)

\* the wait at 0x200 is over with key 10 stored in V5, in a run that goes on
C4_Witness ==
    /\ InLoop
    /\ program_counter = PROG_ADDR + 2
    /\ registers[5] = 10
    /\ Down = {10}
    /\ Loaded(WaitLoopRom(5))

\* --- C5 ---------------------------------------------------------------------------------

\* C5: a step that executes Call nnn at depth < 32 pushes the address after the call
\* (the program counter before the step, plus 2) and sets the program counter to nnn;
\* at depth 32 it returns CallStackFull, leaves the stack as it was and leaves the
\* program counter after the call instead of at nnn.
C5_Call ==
    [][StepTaken /\ AtCall =>
          IF stack.ptr < STACK_SIZE
          THEN /\ result'.tag = "Ok"
               /\ stack'.ptr = stack.ptr + 1
               /\ stack'.data = [stack.data EXCEPT ![stack.ptr] = program_counter + 2]
               /\ program_counter' = FieldNnn
          ELSE /\ result'.tag = "CallStackFull"
               /\ stack' = stack
               /\ program_counter' = program_counter + 2]_vars

\* the call at 0x200 to itself has failed at depth 32, every slot the address after it
C5_Witness ==
    /\ result.tag = "CallStackFull"
    /\ stack.ptr = STACK_SIZE
    /\ \A j \in 0..(STACK_SIZE - 1) : stack.data[j] = PROG_ADDR + 2
    /\ program_counter = PROG_ADDR + 2
    /\ Loaded(RecurseRom)

\* --- C6 ---------------------------------------------------------------------------------

\* C6: a step that executes Return at depth >= 1 sets the program counter to the
\* address pushed last and takes one off the depth; at depth 0 it returns
\* CallStackEmpty.
C6_Return ==
    [][StepTaken /\ AtReturn =>
          IF stack.ptr >= 1
          THEN /\ result'.tag = "Ok"
               /\ program_counter' = stack.data[stack.ptr - 1]
               /\ stack'.ptr = stack.ptr - 1
          ELSE result'.tag = "CallStackEmpty"]_vars

\* the innermost Return of four nested calls has returned behind the fourth call
C6_Witness ==
    /\ result.tag = "Ok"
    /\ stack.ptr = 3
    /\ stack.data[3] = PROG_ADDR + 14
    /\ program_counter = PROG_ADDR + 14
    /\ Loaded(NestRom(4))

\* --- C7 ---------------------------------------------------------------------------------

\* NestRom(k) was loaded and has not been written over; its last Return, with
\* nothing after it, tells it from the others
NestLoaded(k) ==
    /\ memory[PROG_ADDR + 4 * k] = 0
    /\ memory[PROG_ADDR + 4 * k + 1] = 238
    /\ memory[PROG_ADDR + 4 * k + 2] = 0
    /\ Loaded(NestRom(k))

\* how NestRom(k) runs: call i (at 0x200 + 4i) is pending at depths above i with
\* the address after it in slot i; the program counter is at the call or the Return
\* of its depth; and the halt loop after the first call is reached at depth 0 only
NestShape(k) ==
    NestLoaded(k) =>
        /\ stack.ptr \in 0..k
        /\ \A j \in 0..(stack.ptr - 1) : stack.data[j] = PROG_ADDR + 4 * j + 2
        /\ program_counter \in {PROG_ADDR + 4 * stack.ptr, PROG_ADDR + 4 * stack.ptr + 2}
        /\ program_counter = PROG_ADDR + 2 => stack.ptr = 0

\* each Return of NestRom(k) goes to the address after the call that made its depth
NestReturns(k) ==
    NestLoaded(k) /\ AtReturn /\ StepTaken =>
        /\ result'.tag = "Ok"
        /\ program_counter' = PROG_ADDR + 4 * (stack.ptr - 1) + 2
        /\ stack'.ptr = stack.ptr - 1

\* the first step of ExampleCallRom calls 0x208
ExampleFirstStep ==
    result.tag = "None" /\ Loaded(ExampleCallRom) /\ StepTaken =>
        program_counter' = PROG_ADDR + 8 /\ stack'.ptr = 1

\* C7 as stated: for every k in 1..32, k nested calls followed by k returns return to
\* the call sites in reverse order, each Return to the address after its call, the
\* depth ending at its value before the first call; and ROM 22 08 00 00 00 00 00 EE
\* has PC = 0x0202 and depth 0 after two steps.
C7_RoundTripAsStated ==
    /\ [](\A k \in 1..STACK_SIZE : NestShape(k))
    /\ [][(\A k \in 1..STACK_SIZE : NestReturns(k))
            /\ ExampleFirstStep
            /\ (program_counter = PROG_ADDR + 8 /\ stack.ptr = 1
                  /\ Loaded(ExampleCallRom) /\ StepTaken
                  => program_counter' = PROG_ADDR + 2 /\ stack'.ptr = 0)]_vars

\* C7 amended: the round trip as stated; the example is ROM 22 08 00 00 00 00 00 00
\* 00 EE, whose Return is at 0x0208: after two steps PC = 0x0202 and depth 0. ROM
\* 22 08 00 00 00 00 00 EE has its Return at 0x0206 and 00 00 at 0x0208: after two
\* steps PC = 0x020A and depth 1.
C7_RoundTrip ==
    /\ [](\A k \in 1..STACK_SIZE : NestShape(k))
    /\ [][(\A k \in 1..STACK_SIZE : NestReturns(k))
            /\ ExampleFirstStep
            /\ (program_counter = PROG_ADDR + 8 /\ stack.ptr = 1
                  /\ Loaded(ExampleCallRom) /\ StepTaken
                  => program_counter' = PROG_ADDR + 10 /\ stack'.ptr = 1)
            /\ (result.tag = "None" /\ Loaded(CallReturnRom) /\ StepTaken
                  => program_counter' = PROG_ADDR + 8 /\ stack'.ptr = 1)
            /\ (program_counter = PROG_ADDR + 8 /\ stack.ptr = 1
                  /\ Loaded(CallReturnRom) /\ StepTaken
                  => program_counter' = PROG_ADDR + 2 /\ stack'.ptr = 0)]_vars

\* 32 nested calls have all returned: the halt loop at depth 0, the slots still
\* holding the 32 return addresses
C7_Witness ==
    /\ program_counter = PROG_ADDR + 2
    /\ stack.ptr = 0
    /\ \A j \in 0..(STACK_SIZE - 1) : stack.data[j] = PROG_ADDR + 4 * j + 2
    /\ Loaded(NestRom(STACK_SIZE))

\* --- C8 ---------------------------------------------------------------------------------

\* this transition is a call of CallStack::push, of CallStack::pop
PushTaken == Push(result'.val)
PopTaken == Pop

\* the addresses pushed and not yet popped, oldest first
Live == [j \in 0..(stack.ptr - 1) |-> stack.data[j]]

\* C8: push at depth < 32 succeeds and adds exactly one to the depth; push at depth
\* 32 fails with CallStackFull and leaves depth and stored addresses as they were;
\* so the depth never passes 32: from the empty stack 32 pushes in a row succeed
\* and the 33rd fails.
C8_Push ==
    /\ [](stack.ptr \in 0..STACK_SIZE)
    /\ [][PushTaken =>
            IF stack.ptr < STACK_SIZE
            THEN /\ result'.tag = "Ok"
                 /\ stack'.ptr = stack.ptr + 1
            ELSE /\ result'.tag = "CallStackFull"
                 /\ stack' = stack]_vars

\* the 33rd push has failed on 32 pushed addresses
C8_Witness ==
    /\ result = [tag |-> "CallStackFull", val |-> PROG_ADDR + 2 * STACK_SIZE]
    /\ stack.ptr = STACK_SIZE
    /\ \A j \in MaxFreeDepth..(STACK_SIZE - 1) : stack.data[j] = PROG_ADDR + 2 * j

\* --- C9 ---------------------------------------------------------------------------------

\* C9: the stack is last-in first-out: a push puts its address on top of the
\* addresses not yet popped, a pop at depth >= 1 returns the top one and takes it
\* off, leaving the ones below; a pop at depth 0 returns None and leaves the stack
\* as it was.
C9_Lifo ==
    [][/\ PushTaken /\ result'.tag = "Ok" =>
            /\ DOMAIN Live' = 0..stack.ptr
            /\ Live'[stack.ptr] = result'.val
            /\ \A j \in DOMAIN Live : Live'[j] = Live[j]
       /\ PopTaken =>
            IF stack.ptr >= 1
            THEN /\ result' = [tag |-> "Some", val |-> Live[stack.ptr - 1]]
                 /\ DOMAIN Live' = 0..(stack.ptr - 2)
                 /\ \A j \in DOMAIN Live' : Live'[j] = Live[j]
            ELSE /\ result'.tag = "None"
                 /\ stack' = stack]_vars

\* 0x202, 0x2F0, 0xFFF were pushed in this order and popped again, 0x202 last
C9_Witness ==
    /\ result = [tag |-> "Some", val |-> 514]
    /\ stack.ptr = 0
    /\ stack.data[0] = 514
    /\ stack.data[1] = 752
    /\ stack.data[2] = 4095

\* --- C10 --------------------------------------------------------------------------------

\* C10: a step that returns Ok ends with each timer one below its value after the
\* handler if that was nonzero, and at 0 if it was 0; the handler changes a timer
\* only by LD DT,Vx and LD ST,Vx, which set it to Vx, so a timer loaded with v > 0
\* reads v - 1 after the step; a step blocked at Fx0A counts down like any other;
\* the timers stay in 0..255.
C10_TimersTick ==
    /\ [](delay_timer \in 0..(U8 - 1) /\ sound_timer \in 0..(U8 - 1))
    /\ [][StepTaken /\ result'.tag = "Ok" =>
            /\ \E d \in {IF AtLoadDelay THEN registers[FieldX] ELSE delay_timer} :
                 delay_timer' = IF d > 0 THEN d - 1 ELSE 0
            /\ \E t \in {IF AtLoadSound THEN registers[FieldX] ELSE sound_timer} :
                 sound_timer' = IF t > 0 THEN t - 1 ELSE 0]_vars

\* TimerRom is blocked at its Fx0A: the sound timer loaded with 5 three steps ago
\* reads 2, the delay timer has run out and stays 0
C10_Witness ==
    /\ AtWaitKey
    /\ result.tag = "Ok"
    /\ registers[1] = 5
    /\ sound_timer = 2
    /\ delay_timer = 0
    /\ Loaded(TimerRom)

\* --- the decoder on its own ------------------------------------------------------------

\* an emulator just built from an empty ROM, and a 16-bit word about to be decoded
InitDecode ==
    /\ \E e \in {Emulator_new(<< >>)} :
         /\ registers = e.registers
         /\ idx = e.idx
         /\ program_counter = e.program_counter
         /\ delay_timer = e.delay_timer
         /\ sound_timer = e.sound_timer
         /\ stack = e.stack
         /\ memory = e.memory
         /\ video_buffer = e.video_buffer
         /\ keypad = e.keypad
    /\ is_running = TRUE
    /\ overflow_checks = TRUE
    /\ \E w \in 0..(U16 - 1) : result = [tag |-> "Word", val |-> w]

\* OpCode::from(raw) called on the word
Decode ==
    /\ result.tag = "Word"
    /\ result' = [tag |-> "OpCode", val |-> from(result.val), raw |-> result.val]
    /\ UNCHANGED << registers, idx, program_counter, delay_timer, sound_timer, stack,
                    memory, video_buffer, keypad, is_running, overflow_checks >>

NextDecode == Decode

SpecDecode == InitDecode /\ [][NextDecode]_vars

\* --- C11 --------------------------------------------------------------------------------

\* the word matches no combination the decoder knows: group 0 with a low byte other
\* than E0, EE; group 8 with a low nibble other than 0..7, E; group E with a low byte
\* other than 91, A1; group F with a low byte other than 07, 0A, 15, 18, 1E, 29, 33,
\* 55, 65
Unknown(w) ==
    \/ w \div 4096 = 0 /\ w % 256 \notin {224, 238}
    \/ w \div 4096 = 8 /\ w % 16 \notin (0..7) \cup {14}
    \/ w \div 4096 = 14 /\ w % 256 \notin {145, 161}
    \/ w \div 4096 = 15 /\ w % 256 \notin {7, 10, 21, 24, 30, 41, 51, 85, 101}

\* C11: every 16-bit word decodes to one instruction kind; to the no-op fallback,
\* with the word itself as payload, exactly when it matches no known combination;
\* and each payload field is the fixed extraction of the word: x = bits 8..11,
\* y = bits 4..7, n = bits 0..3, kk = bits 0..7, nnn = bits 0..11, so x and y are
\* in 0..15.
C11_Decode ==
    result.tag = "OpCode" =>
        \E w \in {result.raw} : \E am \in {result.val.address_mode} :
            /\ result.val.instr \in RAW..SKNP
            /\ result.val.instr = RAW <=> Unknown(w)
            /\ result.val.instr = RAW => am = [mode |-> "OpCode", opcode |-> w]
            /\ "x" \in DOMAIN am => am.x = (w \div 256) % 16 /\ am.x \in 0..15
            /\ "y" \in DOMAIN am => am.y = (w \div 16) % 16 /\ am.y \in 0..15
            /\ "nibble" \in DOMAIN am => am.nibble = w % 16
            /\ "byte" \in DOMAIN am => am.byte = w % 256
            /\ "address" \in DOMAIN am => am.address = w % 4096

\* DABF has been decoded: DRW VA, VB, 15
C11_Witness ==
    /\ result.tag = "OpCode"
    /\ result.raw = 55999
    /\ result.val = [instr |-> DRW,
                     address_mode |-> [mode |-> "VxVyN", x |-> 10, y |-> 11,
                                       nibble |-> 15]]

\* --- C12 --------------------------------------------------------------------------------

FieldY == (WordAtPc \div 16) % 16
FieldKk == WordAtPc % 256

\* the instruction at the program counter is a skip: 3xkk, 4xkk, 5xy_, 9xy_, Ex91, ExA1
AtSkipKey == WordAtPc \div 4096 = 14 /\ FieldKk = 145
AtSkipNoKey == WordAtPc \div 4096 = 14 /\ FieldKk = 161
AtSkip == WordAtPc \div 4096 \in {3, 4, 5, 9} \/ AtSkipKey \/ AtSkipNoKey

\* the condition of the skip at the program counter, the keys those the step polls
SkipCond ==
    CASE WordAtPc \div 4096 = 3 -> registers[FieldX] = FieldKk
      [] WordAtPc \div 4096 = 4 -> registers[FieldX] # FieldKk
      [] WordAtPc \div 4096 = 5 -> registers[FieldX] = registers[FieldY]
      [] WordAtPc \div 4096 = 9 -> registers[FieldX] # registers[FieldY]
      [] AtSkipKey -> registers[FieldX] \in Down'
      [] AtSkipNoKey -> registers[FieldX] \notin Down'

\* C12: a step that executes a skip instruction succeeds and leaves the program
\* counter 4 above its value before the step when the condition holds and 2 above
\* it when it does not, and changes no register, index register, memory cell, stack
\* or display cell.
C12_Skips ==
    [][StepTaken /\ AtSkip =>
          /\ result'.tag = "Ok"
          /\ program_counter' = program_counter + (IF SkipCond THEN 4 ELSE 2)
          /\ registers' = registers
          /\ idx' = idx
          /\ stack' = stack
          /\ memory' = memory
          /\ video_buffer' = video_buffer]_vars

\* SKP V0 has run with V0 = 16, a key the keypad does not have: the step panicked
C12_Witness ==
    /\ result.tag = "Panic"
    /\ registers[0] = 16
    /\ Loaded(KeyRangeRom)

\* --- one arithmetic instruction on chosen operands -----------------------------------------

\* the register values tried, as pairs (Vx, Vy): no carry and carry, borrow and
\* none, equal values, the top bit, the ends of the range
Operands ==
    {<< 5, 3 >>, << 3, 5 >>, << 250, 10 >>, << 10, 250 >>, << 0, 0 >>, << 3, 3 >>,
     << 128, 128 >>, << 255, 255 >>, << 255, 1 >>, << 0, 255 >>}

\* the destination registers and the source registers tried: the first, the last
\* before VF, a neighbour, and VF
DestRegs == {0, 14}
SrcRegs == {0, 1, 14, 15}

\* the low nibbles of 8xy_ tried: ADD, SUB, SHR, SHL
AluOps == {4, 5, 6, 14}

\* LD VF, 7; LD Vx, a; LD Vy, b; 8xy_ with low nibble lo; then a halt loop at 0x208
AluRom(lo, vx, vy, a, b) ==
    Flatten(<< 24576 + 15 * 256 + 7,
               24576 + vx * 256 + a,
               24576 + vy * 256 + b,
               32768 + vx * 256 + vy * 16 + lo,
               4096 + PROG_ADDR + 8 >>)

AluRoms ==
    {AluRom(lo, vx, vy, ab[1], ab[2]) :
        lo \in AluOps, vx \in DestRegs, vy \in SrcRegs, ab \in Operands}

InitAlu == InitWith(AluRoms)

NextAlu == StepFrame \/ IdleFrame

SpecAlu == InitAlu /\ [][NextAlu]_vars

\* the instruction at the program counter is 8xy_ with this low nibble
AtAlu(lo) == WordAtPc \div 4096 = 8 /\ WordAtPc % 16 = lo

\* no register but Vx and VF changes in this step
OnlyVxAndVF ==
    \A i \in 0..(NUM_REGISTERS - 1) :
        i \notin {FieldX, 15} => registers'[i] = registers[i]

\* --- C13 --------------------------------------------------------------------------------

\* C13: a step that executes ADD Vx, Vy with x in 0..14 leaves Vx = (Vx + Vy) mod 256
\* and VF = 1 if Vx + Vy > 255, else 0, of the values before the step, for every y
\* (y = x and y = 15 included); no other register changes.
C13_AddCarry ==
    [][StepTaken /\ AtAlu(4) /\ FieldX <= 14 =>
          /\ result'.tag = "Ok"
          /\ registers'[FieldX] = (registers[FieldX] + registers[FieldY]) % 256
          /\ registers'[15] = IF registers[FieldX] + registers[FieldY] > 255 THEN 1 ELSE 0
          /\ OnlyVxAndVF]_vars

\* ADD V0, V1 has run on V0 = 250, V1 = 10: V0 = 4, VF = 1
C13_Witness ==
    /\ program_counter = PROG_ADDR + 8
    /\ registers[0] = 4
    /\ registers[1] = 10
    /\ registers[15] = 1
    /\ Loaded(AluRom(4, 0, 1, 250, 10))

\* --- C14 --------------------------------------------------------------------------------

\* C14: a step that executes SUB Vx, Vy with x in 0..14 leaves VF = 1 if Vx > Vy, else
\* 0, and Vx = (Vx - Vy) mod 256, both of the values before the step, for every y
\* (y = x and y = 15 included).
C14_Sub ==
    [][StepTaken /\ AtAlu(5) /\ FieldX <= 14 =>
          /\ result'.tag = "Ok"
          /\ registers'[15] = IF registers[FieldX] > registers[FieldY] THEN 1 ELSE 0
          /\ registers'[FieldX] = (registers[FieldX] - registers[FieldY] + 256) % 256]_vars

\* SUB V0, VF has run on V0 = 5, VF = 3: VF = 1, and V0 = 4, which is 5 - 1
C14_Witness ==
    /\ program_counter = PROG_ADDR + 8
    /\ registers[0] = 4
    /\ registers[15] = 1
    /\ Loaded(AluRom(5, 0, 15, 5, 3))

\* --- C15 --------------------------------------------------------------------------------

\* C15: with x in 0..14, a step that executes SHR Vx leaves VF = Vx & 1 and
\* Vx = Vx >> 1, and one that executes SHL Vx leaves VF = (Vx >> 7) & 1 and
\* Vx = (Vx << 1) mod 256, of the value before the step; Vy has no part in it: the
\* result is the same for every y and every Vy, and no register but Vx and VF changes.
C15_Shifts ==
    [][/\ StepTaken /\ AtAlu(6) /\ FieldX <= 14 =>
            /\ result'.tag = "Ok"
            /\ registers'[15] = registers[FieldX] % 2
            /\ registers'[FieldX] = registers[FieldX] \div 2
            /\ OnlyVxAndVF
       /\ StepTaken /\ AtAlu(14) /\ FieldX <= 14 =>
            /\ result'.tag = "Ok"
            /\ registers'[15] = (registers[FieldX] \div 128) % 2
            /\ registers'[FieldX] = (registers[FieldX] * 2) % 256
            /\ OnlyVxAndVF]_vars

\* SHR V0 has run on V0 = 3 with V1 = 5: V0 = 1, VF = 1, V1 as it was
C15_Witness ==
    /\ program_counter = PROG_ADDR + 8
    /\ registers[0] = 1
    /\ registers[1] = 5
    /\ registers[15] = 1
    /\ Loaded(AluRom(6, 0, 1, 3, 5))

\* --- a sprite drawn again and again ------------------------------------------------------

\* the values of V0 and V1 tried as origin, and the heights
DrawXs == {0, 10, 60, 255}
DrawYs == {0, 28, 31}
DrawHeights == {0, 1, 5, 15}

\* LD V0, vx; LD V1, vy; LD I, 0x050 (the glyphs as sprite); DRW V0, V1, n three
\* times; then a halt loop at 0x20C
DrawRom(vx, vy, height) ==
    Flatten(<< 24576 + vx,
               24576 + 256 + vy,
               40960 + FONT_ADDR,
               53248 + 16 + height,
               53248 + 16 + height,
               53248 + 16 + height,
               4096 + PROG_ADDR + 12 >>)

DrawRoms == {DrawRom(vx, vy, h) : vx \in DrawXs, vy \in DrawYs, h \in DrawHeights}

InitDraw == InitWith(DrawRoms)

NextDraw == StepFrame \/ IdleFrame

SpecDraw == InitDraw /\ [][NextDraw]_vars

\* the word at address a, big-endian
WordAt(a) == memory[a % MEMORY_SIZE] * 256 + memory[(a + 1) % MEMORY_SIZE]

\* the instruction at the program counter is Dxyn
AtDraw == WordAtPc \div 4096 = 13
FieldN == WordAtPc % 16

\* the sprite the Draw at the program counter reads has a set bit
SpriteSet == \E r \in 0..(FieldN - 1) : memory[(idx + r) % MEMORY_SIZE] > 0

\* --- C16 --------------------------------------------------------------------------------

\* C16: where the program is about to execute a Draw of height 1..15 with a sprite
\* that has a set bit, followed by the same Draw, the two steps succeed, leave every
\* display cell as it was before the first, and leave VF = 1.
C16_DrawTwice ==
    InLoop /\ AtDraw /\ WordAt(program_counter + 2) = WordAtPc
           /\ FieldN >= 1 /\ FieldX # 15 /\ FieldY # 15 /\ SpriteSet =>
        \E s1 \in {step(Self, 0)} :
            /\ s1.res = "Ok"
            /\ \E s2 \in {step(s1.emu, 0)} :
                 /\ s2.res = "Ok"
                 /\ s2.emu.video_buffer = video_buffer
                 /\ s2.emu.registers[15] = 1

\* DRW V0, V1, 5 at row 31 has panicked: its second row lies past the last cell
C16_Witness ==
    /\ result.tag = "Panic"
    /\ registers[1] = 31
    /\ Loaded(DrawRom(0, 31, 5))

\* --- construction -----------------------------------------------------------------------

\* the largest ROM that fits between PROG_ADDR and the end of memory
MaxRomLen == MEMORY_SIZE - PROG_ADDR

\* a ROM file of len bytes: first, first + stride, .. (mod 256)
RomFile(len, first, stride) == [i \in 1..len |-> (first + stride * (i - 1)) % U8]

RomFiles ==
    {RomFile(len, first, stride) :
        len \in {0, 1, 2, 100, MaxRomLen - 1, MaxRomLen, MaxRomLen + 1},
        first \in {0, 1, 255},
        stride \in {0, 1, 7}}

\* before Emulator::new: the bytes of the ROM file are at hand, the variables of the
\* emulator hold nothing of it yet
InitNew ==
    /\ \E e \in {Emulator_new(<< >>)} :
         /\ registers = [e.registers EXCEPT ![0] = 1]
         /\ idx = 1
         /\ program_counter = 0
         /\ delay_timer = 1
         /\ sound_timer = 1
         /\ stack = [e.stack EXCEPT !.ptr = 1]
         /\ memory = [a \in 0..(MEMORY_SIZE - 1) |-> 255]
         /\ video_buffer = [e.video_buffer EXCEPT ![0] = 255]
         /\ keypad = [e.keypad EXCEPT ![0] = 1]
    /\ is_running = TRUE
    /\ overflow_checks \in BOOLEAN
    /\ \E bytes \in RomFiles : result = [tag |-> "RomFile", val |-> bytes]

\* Emulator::new(rom_file); Memory::new panics on a ROM that does not fit
New ==
    /\ result.tag = "RomFile"
    /\ IF PROG_ADDR + Len(result.val) > MEMORY_SIZE
       THEN /\ result' = [tag |-> "Panic", val |-> result.val]
            /\ UNCHANGED << registers, idx, program_counter, delay_timer, sound_timer,
                            stack, memory, video_buffer, keypad >>
       ELSE /\ Becomes(Emulator_new(result.val))
            /\ result' = [tag |-> "Emulator", val |-> result.val]
    /\ UNCHANGED << is_running, overflow_checks >>

NextNew == New

SpecNew == InitNew /\ [][NextNew]_vars

\* --- C17 --------------------------------------------------------------------------------

\* C17: the emulator constructed from a ROM of L <= 3584 bytes has the ROM at
\* 0x0200.., the 80 bytes of the glyph table at 0x0050..0x009F, 0 in every other
\* memory cell, the program counter at 0x0200, and 0 in all registers, the index
\* register, both timers, every key, every display cell and the call-stack depth.
C17_Construction ==
    result.tag \in {"Emulator", "Panic"} /\ Len(result.val) <= MaxRomLen =>
        /\ result.tag = "Emulator"
        /\ \A a \in 0..(MEMORY_SIZE - 1) :
             memory[a] =
                 IF a >= PROG_ADDR /\ a < PROG_ADDR + Len(result.val)
                 THEN result.val[a - PROG_ADDR + 1]
                 ELSE IF a >= FONT_ADDR /\ a < FONT_ADDR + 16 * 5
                 THEN FONTSET[a - FONT_ADDR + 1]
                 ELSE 0
        /\ Len(FONTSET) = 16 * 5
        /\ program_counter = PROG_ADDR
        /\ \A i \in 0..(NUM_REGISTERS - 1) : registers[i] = 0
        /\ idx = 0
        /\ delay_timer = 0
        /\ sound_timer = 0
        /\ \A k \in 0..(NUM_KEYS - 1) : keypad[k] = 0
        /\ \A i \in DOMAIN video_buffer : video_buffer[i] = 0
        /\ DOMAIN video_buffer = 0..(VIDEO_BUFFER_WIDTH * VIDEO_BUFFER_HEIGHT - 1)
        /\ stack.ptr = 0

\* constructed from the largest ROM that fits: its last byte is the last memory cell
C17_Witness ==
    /\ result.tag = "Emulator"
    /\ Len(result.val) = MaxRomLen
    /\ result.val[MaxRomLen] = 254
    /\ memory[MEMORY_SIZE - 1] = 254
    /\ memory[PROG_ADDR] = 255

\* --- reads and writes of the address space ------------------------------------------------

\* the 16-bit addresses tried: seven offsets in each of the sixteen 4096-byte windows
Offsets == {0, 1, FONT_ADDR, PROG_ADDR - 1, PROG_ADDR, MEMORY_SIZE - 2, MEMORY_SIZE - 1}
Addresses == {k * MEMORY_SIZE + o : k \in 0..(U16 \div MEMORY_SIZE - 1), o \in Offsets}

\* the bytes written (zero, a glyph row, an arbitrary byte)
Bytes == {0, 171, 240}

\* a memory with the glyphs and a full ROM, and an address to access
InitMem ==
    /\ \E e \in {Emulator_new(RomFile(MaxRomLen, 1, 3))} :
         /\ registers = e.registers
         /\ idx = e.idx
         /\ program_counter = e.program_counter
         /\ delay_timer = e.delay_timer
         /\ sound_timer = e.sound_timer
         /\ stack = e.stack
         /\ memory = e.memory
         /\ video_buffer = e.video_buffer
         /\ keypad = e.keypad
    /\ is_running = TRUE
    /\ overflow_checks \in BOOLEAN
    /\ \E a \in Addresses : result = [tag |-> "Addr", addr |-> a, val |-> 0]

NotMemory ==
    << registers, idx, program_counter, delay_timer, sound_timer, stack, video_buffer,
       keypad, is_running, overflow_checks >>

\* `self.memory[addr]` read
MemRead ==
    /\ result.tag = "Addr"
    /\ result' = [tag |-> "Read", addr |-> result.addr, val |-> index(memory, result.addr)]
    /\ UNCHANGED memory
    /\ UNCHANGED NotMemory

\* `self.memory[addr] = val`
MemWrite ==
    /\ result.tag = "Addr"
    /\ \E val \in Bytes :
         /\ memory' = index_mut(memory, result.addr, val)
         /\ result' = [tag |-> "Written", addr |-> result.addr, val |-> val]
    /\ UNCHANGED NotMemory

\* a later read of an address 4096 * k above the one written (mod 2^16)
MemReadAlias ==
    /\ result.tag = "Written"
    /\ \E k \in 0..(U16 \div MEMORY_SIZE - 1) :
         LET a == (result.addr + k * MEMORY_SIZE) % U16 IN
         result' = [tag |-> "ReadAlias", addr |-> a, val |-> index(memory, a)]
    /\ UNCHANGED memory
    /\ UNCHANGED NotMemory

NextMem == MemRead \/ MemWrite \/ MemReadAlias

SpecMem == InitMem /\ [][NextMem]_vars

\* --- C18 --------------------------------------------------------------------------------

\* C18: a read of a 16-bit address a returns the byte at a & 0x0FFF and changes no
\* cell; a write of a changes the byte at a & 0x0FFF to the value written and no
\* other cell; a read of a + 4096k after the write returns the value written; the
\* space stays the 4096 cells 0..4095.
C18_MaskedAccess ==
    [][ /\ DOMAIN memory' = 0..4095
        /\ result'.tag \in {"Read", "ReadAlias"} =>
             /\ memory' = memory
             /\ result'.val = memory[BitAnd(result'.addr, 4095)]
        /\ result'.tag = "Written" =>
             /\ memory'[BitAnd(result'.addr, 4095)] = result'.val
             /\ \A b \in 0..4095 :
                  b # BitAnd(result'.addr, 4095) => memory'[b] = memory[b]
        /\ result'.tag = "ReadAlias" => result'.val = result.val
      ]_vars

\* 0xAB written through some address of cell 0x0FFF is read back at 0xFFFF
C18_Witness ==
    /\ result.tag = "ReadAlias"
    /\ result.addr = U16 - 1
    /\ result.val = 171
    /\ memory[MEMORY_SIZE - 1] = 171
    /\ memory[MEMORY_SIZE - 2] # 171

\* --- a program that runs on into empty memory ------------------------------------------------

\* 60 05 61 03 80 14: LD V0, 5; LD V1, 3; ADD V0, V1; zeros (no-ops) follow
FetchRom == << 96, 5, 97, 3, 128, 20 >>

\* the run is followed while the program counter is below this address
MaxPc == 768

FetchRoms == {FetchRom, TourRom, ExampleCallRom, CallReturnRom}

InitFetch == InitWith(FetchRoms)

StepBelowMaxPc == program_counter < MaxPc /\ StepFrame

NextFetch == StepBelowMaxPc \/ IdleFrame

SpecFetch == InitFetch /\ [][NextFetch]_vars

\* the instruction at the program counter sets the program counter itself: a jump
\* (1nnn, Bnnn), a call, a return, a skip that is taken, or Fx0A with no key pressed
SetsPc ==
    \/ from(WordAtPc).instr \in {JP, CALL, RET}
    \/ AtSkip /\ SkipCond
    \/ AtWaitKey /\ Down' = {}

\* --- C19 --------------------------------------------------------------------------------

\* C19: a successful step executes the one instruction whose word is
\* memory[PC] * 256 + memory[PC + 1] (6xkk leaves kk in Vx, a call pushes PC + 2),
\* and unless that instruction is a jump, a call, a return, a taken skip or a
\* blocked wait for a key, the program counter ends 2 above its value before the
\* step; ROM 60 05 61 03 80 14 has V0 = 8, V1 = 3, VF = 0 when it reaches 0x0206.
C19_FetchExecute ==
    /\ [][StepTaken /\ result'.tag = "Ok" =>
            /\ ~SetsPc => program_counter' = program_counter + 2
            /\ WordAtPc \div 4096 = 6 => registers'[FieldX] = FieldKk
            /\ AtCall => /\ stack'.data[stack.ptr] = program_counter + 2
                         /\ program_counter' = FieldNnn]_vars
    /\ [](result.tag = "Ok" /\ program_counter = PROG_ADDR + 6 /\ Loaded(FetchRom) =>
            registers[0] = 8 /\ registers[1] = 3 /\ registers[15] = 0)

\* ROM 60 05 61 03 80 14 after its three steps
C19_Witness ==
    /\ result.tag = "Ok"
    /\ program_counter = PROG_ADDR + 6
    /\ registers[0] = 8
    /\ registers[15] = 0
    /\ Loaded(FetchRom)

\* --- a word of no known instruction, met with the machine in use ----------------------------

\* the words tried: 0000, 00E1, 01E0, 01EE, 0FFF, 8008, 800F, 8AB9, E000, E19E, EFA2,
\* F000, F00B, F075, F1FF
OddWords ==
    {0, 225, 480, 494, 4095, 32776, 32783, 35513, 57344, 57758, 61346,
     61440, 61451, 61557, 61951}

\* LD V0, 5; LD I, 0x050; DRW V0, V0, 5; CALL 0x20A; (0x208: JP 0x208); 0x20A: the
\* word w; JP 0x20C
OddRom(w) ==
    Flatten(<< 24576 + 5,
               40960 + FONT_ADDR,
               53248 + 5,
               8192 + PROG_ADDR + 10,
               4096 + PROG_ADDR + 8,
               w,
               4096 + PROG_ADDR + 12 >>)

OddRoms == {OddRom(w) : w \in OddWords}

InitOdd == InitWith(OddRoms)

NextOdd == StepFrame \/ IdleFrame

SpecOdd == InitOdd /\ [][NextOdd]_vars

\* the words the claim counts as matching no known combination: as Unknown, but in
\* group 0 every word other than 00E0 and 00EE
UnknownAsStated(w) ==
    \/ w \div 4096 = 0 /\ w \notin {224, 238}
    \/ w \div 4096 # 0 /\ Unknown(w)

\* the step succeeded and left registers, index register, memory, call stack and
\* display as they were, and the keypad as the frame's poll set it
NoOpStep ==
    /\ result'.tag = "Ok"
    /\ registers' = registers
    /\ idx' = idx
    /\ memory' = memory
    /\ stack' = stack
    /\ video_buffer' = video_buffer
    /\ keypad' = process_input(Self, Down').keypad

\* --- C20 --------------------------------------------------------------------------------

\* C20 as stated: a step at a word of group 0 other than 00E0 and 00EE, of group 8
\* with a low nibble outside {0..7, E}, or of group E or F with an unknown low byte
\* succeeds and changes no register, index register, memory cell, stack slot, display
\* cell or key.
C20_NoOpAsStated == [][StepTaken /\ UnknownAsStated(WordAtPc) => NoOpStep]_vars

\* C20: a step at a word that decodes to the no-op fallback (group 0 with a low byte
\* other than E0 and EE, group 8 with a low nibble outside {0..7, E}, group E or F
\* with an unknown low byte) succeeds and changes no register, index register, memory
\* cell, stack slot, display cell or key; the run goes on.
C20_NoOp ==
    [][StepTaken /\ Unknown(WordAtPc) => NoOpStep /\ InLoop' = is_running']_vars

\* 800F has run at 0x20A with a glyph on the display and one address on the stack
C20_Witness ==
    /\ result.tag = "Ok"
    /\ program_counter = PROG_ADDR + 12
    /\ stack.ptr = 1
    /\ idx = FONT_ADDR
    /\ video_buffer[5 * VIDEO_BUFFER_WIDTH + 5] = 255
    /\ Loaded(OddRom(32783))

\* --- the process, from its arguments to its exit status ------------------------------------

\* ExitCode::SUCCESS, ExitCode::FAILURE, and the status of a process that panicked
EXIT_SUCCESS == 0
EXIT_FAILURE == 1
EXIT_PANIC == 101

\* the errors run() can return before the loop, and those step() can return
StartErrors == {"NoROMFile", "FailedToLoadROM"}
StepErrors == {"CallStackEmpty", "CallStackFull", "InvalidAddressMode"}

\* the command lines tried: no ROM argument; a ROM file that cannot be read; ROM
\* files that fail at the first step, after 32 steps, by a panic, and not at all
CommandLines ==
    {[argc |-> 1, readable |-> FALSE, bytes |-> << >>],
     [argc |-> 2, readable |-> FALSE, bytes |-> << >>]}
        \cup {[argc |-> 2, readable |-> TRUE, bytes |-> b] :
                b \in {ReturnRom, RecurseRom, KeyRangeRom, TimerRom, CallReturnRom}}

\* main has collected std::env::args(); no Application exists yet
InitRun ==
    /\ \E e \in {Emulator_new(<< >>)} :
         /\ registers = e.registers
         /\ idx = e.idx
         /\ program_counter = 0
         /\ delay_timer = e.delay_timer
         /\ sound_timer = e.sound_timer
         /\ stack = e.stack
         /\ memory = [a \in 0..(MEMORY_SIZE - 1) |-> 0]
         /\ video_buffer = e.video_buffer
         /\ keypad = e.keypad
    /\ is_running = FALSE
    /\ overflow_checks \in BOOLEAN
    /\ \E args \in CommandLines : result = [tag |-> "Args", val |-> args]

Emu ==
    << registers, idx, program_counter, delay_timer, sound_timer, stack, memory,
       video_buffer, keypad >>

\* keet_8::run up to the loop: the argument check, then Application::new
Start ==
    /\ result.tag = "Args"
    /\ \E args \in {result.val} :
         IF args.argc < 2
         THEN /\ result' = [tag |-> "NoROMFile", val |-> 0]
              /\ UNCHANGED << Emu, is_running >>
         ELSE IF ~args.readable
         THEN /\ result' = [tag |-> "FailedToLoadROM", val |-> 0]
              /\ UNCHANGED << Emu, is_running >>
         ELSE /\ Becomes(Emulator_new(args.bytes))
              /\ is_running' = TRUE
              /\ result' = [tag |-> "None", val |-> 0]
    /\ UNCHANGED overflow_checks

\* main after run() has returned, or the process after a panic
Exit ==
    /\ result.tag \notin {"Args", "Exit"}
    /\ ~InLoop
    /\ result' = [tag |-> "Exit",
                  val |-> IF result.tag = "Panic" THEN EXIT_PANIC
                          ELSE IF result.tag \in StartErrors \cup StepErrors
                          THEN EXIT_FAILURE
                          ELSE EXIT_SUCCESS]
    /\ UNCHANGED << Emu, is_running, overflow_checks >>

NextRun == Start \/ StepFrame \/ IdleFrame \/ Exit

SpecRun == InitRun /\ [][NextRun]_vars

\* --- C21 --------------------------------------------------------------------------------

\* C21: after a missing ROM argument, a ROM-load failure or an error returned by
\* step(), the only thing that happens is the exit with failure status, the emulator
\* left as it was (no step is called); after a start error the emulator was never
\* stepped or built; and the exit has success status only out of a loop that ended
\* with is_running false and no error.
C21_ErrorsAreFatal ==
    /\ [][result.tag \in StartErrors \cup StepErrors =>
            /\ result'.tag = "Exit"
            /\ result'.val = EXIT_FAILURE
            /\ UNCHANGED Emu]_vars
    /\ [][result.tag = "Args" =>
            \/ result'.tag \in StartErrors /\ UNCHANGED Emu
            \/ result'.tag = "None" /\ result.val.argc >= 2 /\ result.val.readable]_vars
    /\ [][result'.tag = "Exit" /\ result.tag # "Exit" =>
            (result'.val = EXIT_SUCCESS <=>
                result.tag \in {"None", "Ok"} /\ ~is_running)]_vars

\* the process has exited with failure after a Return on the empty stack, the
\* program counter where the failed step left it
C21_Witness ==
    /\ result.tag = "Exit"
    /\ result.val = EXIT_FAILURE
    /\ program_counter = PROG_ADDR + 2
    /\ stack.ptr = 0
    /\ Loaded(ReturnRom)

\* --- C22 --------------------------------------------------------------------------------

\* what a transition adds to the call-stack depth if the depth counts the successful
\* Calls minus the successful Returns: 1 for a step that executed a Call and
\* succeeded, -1 for one that executed a Return and succeeded, 0 for any other step
\* (failed ones included) and for a frame that does not step
DepthChange ==
    IF StepTaken /\ result'.tag = "Ok"
    THEN CASE from(WordAtPc).instr = CALL -> 1
           [] from(WordAtPc).instr = RET -> -1
           [] OTHER -> 0
    ELSE 0

\* C22: the call-stack depth is 0 at the start, changes with every transition by
\* exactly the count of successful Calls minus successful Returns in it, and is
\* between 0 and 32 in every reachable state.
C22_DepthCounts ==
    /\ stack.ptr = 0
    /\ [](stack.ptr \in 0..32)
    /\ [][stack'.ptr = stack.ptr + DepthChange]_vars

\* 32 calls of RecurseRom succeeded, the 33rd failed: the depth is still 32
C22_Witness ==
    /\ result.tag = "CallStackFull"
    /\ stack.ptr = 32
    /\ stack.data[31] = PROG_ADDR + 2
    /\ program_counter = PROG_ADDR + 2
    /\ Loaded(RecurseRom)

\* --- every word, executed once ---------------------------------------------------------------

\* the words executed: every top nibble with every low byte (the two fields the
\* decoder branches on), the x field 0 or 10
WordsTried == {hi * 4096 + vx * 256 + lo : hi \in 0..15, vx \in {0, 10}, lo \in 0..255}

\* an emulator built from an empty ROM, and a 16-bit word about to be executed
InitWord ==
    /\ \E e \in {Emulator_new(<< >>)} :
         /\ registers = e.registers
         /\ idx = e.idx
         /\ program_counter = e.program_counter
         /\ delay_timer = e.delay_timer
         /\ sound_timer = e.sound_timer
         /\ stack = e.stack
         /\ memory = e.memory
         /\ video_buffer = e.video_buffer
         /\ keypad = e.keypad
    /\ is_running = TRUE
    /\ overflow_checks = TRUE
    /\ \E w \in WordsTried : result = [tag |-> "Word", val |-> w]

\* the word is put at the program counter (as the ROM would have) and step() is
\* called, no key pressed, rand::random returning 0 or 0xFF
ExecuteWord ==
    /\ result.tag = "Word"
    /\ \E random \in {0, 255} :
         \E e \in {[Self EXCEPT !.memory[PROG_ADDR] = result.val \div 256,
                                !.memory[PROG_ADDR + 1] = result.val % 256]} :
             \E r \in {step(e, random)} :
                 /\ Becomes(r.emu)
                 /\ result' = [tag |-> r.res, val |-> result.val]
    /\ UNCHANGED << is_running, overflow_checks >>

NextWord == ExecuteWord

SpecWord == InitWord /\ [][NextWord]_vars

\* --- C23 --------------------------------------------------------------------------------

\* C23: for every word tried, the kind the decoder gives is an index into the
\* 21-entry handler table, and the step that executes the word does not return
\* InvalidAddressMode.
C23_NoInvalidAddressMode ==
    /\ Len(instructions) = 21
    /\ from(result.val).instr \in 0..20
    /\ result.tag # "InvalidAddressMode"

\* FA65 (LD VA, [I]) has been executed
C23_Witness ==
    /\ result = [tag |-> "Ok", val |-> 64101]
    /\ program_counter = PROG_ADDR + 2
    /\ memory[PROG_ADDR] = 250

\* --- SUBN, and the flag register as destination ----------------------------------------------

\* SUBN Vx, Vy with the registers of AluRoms, and the five flag-setting 8xy_ kinds
\* (ADD, SUB, SHR, SUBN, SHL) with VF as destination
FlagRoms ==
    {AluRom(7, vx, vy, ab[1], ab[2]) : vx \in DestRegs, vy \in SrcRegs, ab \in Operands}
        \cup {AluRom(lo, 15, vy, ab[1], ab[2]) :
                lo \in AluOps \cup {7}, vy \in {0, 15}, ab \in Operands}

InitFlag == InitWith(FlagRoms)

NextFlag == StepFrame \/ IdleFrame

SpecFlag == InitFlag /\ [][NextFlag]_vars

\* --- C24 --------------------------------------------------------------------------------

\* C24: a step that executes SUBN Vx, Vy with x in 0..14 leaves VF = 1 if Vy > Vx,
\* else 0, and Vx = (Vy - Vx) mod 256, both of the values before the step, for every
\* y (y = x and y = 15 included).
C24_Subn ==
    [][StepTaken /\ AtAlu(7) /\ FieldX <= 14 =>
          /\ result'.tag = "Ok"
          /\ registers'[15] = IF registers[FieldY] > registers[FieldX] THEN 1 ELSE 0
          /\ registers'[FieldX] = (registers[FieldY] - registers[FieldX] + 256) % 256]_vars

\* SUBN V0, VF has run on V0 = 3, VF = 5: VF = 1, and V0 = 254, which is 1 - 3
C24_Witness ==
    /\ program_counter = PROG_ADDR + 8
    /\ registers[0] = 254
    /\ registers[15] = 1
    /\ Loaded(AluRom(7, 0, 15, 3, 5))

\* --- C25 --------------------------------------------------------------------------------

\* the flag of the 8xy_ instruction at the program counter, of the registers as they
\* are: carry, Vx > Vy, bit 0 of Vx, Vy > Vx, bit 7 of Vx
FlagValue ==
    CASE AtAlu(4) -> IF registers[FieldX] + registers[FieldY] > 255 THEN 1 ELSE 0
      [] AtAlu(5) -> IF registers[FieldX] > registers[FieldY] THEN 1 ELSE 0
      [] AtAlu(6) -> registers[FieldX] % 2
      [] AtAlu(7) -> IF registers[FieldY] > registers[FieldX] THEN 1 ELSE 0
      [] AtAlu(14) -> (registers[FieldX] \div 128) % 2

\* C25: a step that executes ADD, SUB, SHR, SUBN or SHL with VF as destination
\* leaves in VF the flag of the instruction, of the values before the step.
C25_FlagWins ==
    [][/\ StepTaken
       /\ FieldX = 15
       /\ AtAlu(4) \/ AtAlu(5) \/ AtAlu(6) \/ AtAlu(7) \/ AtAlu(14) =>
            /\ result'.tag = "Ok"
            /\ registers'[15] = FlagValue]_vars

\* ADD VF, V0 has run on VF = 250, V0 = 10: VF = 4, the sum, and not the carry 1
C25_Witness ==
    /\ program_counter = PROG_ADDR + 8
    /\ registers[15] = 4
    /\ registers[0] = 10
    /\ Loaded(AluRom(4, 15, 0, 250, 10))

\* --- C26 --------------------------------------------------------------------------------

\* bit c (from the left) of row r of the sprite the Draw at the program counter reads
SpriteBit(r, c) == (memory[(idx + r) % MEMORY_SIZE] \div Pow2(7 - c)) % 2 = 1

\* the display cell of row r, column c of that sprite, the origin taken from the
\* registers as they are
SpriteCell(r, c) ==
    ((registers[FieldY] % VIDEO_BUFFER_HEIGHT) + r) * VIDEO_BUFFER_WIDTH
        + (registers[FieldX] % VIDEO_BUFFER_WIDTH) + c

\* the cells of the set bits of that sprite
SetCells ==
    {SpriteCell(rc[1], rc[2]) :
        rc \in {rc \in (0..(FieldN - 1)) \X (0..7) : SpriteBit(rc[1], rc[2])}}

\* C26: a Draw that completes turns the cell of every set sprite bit from 0 to 0xFF
\* or from 0xFF to 0 and leaves every other cell as it was, and leaves VF = 1 if a
\* cell of a set bit was 0xFF before the step, else VF = 0, whatever VF was before.
C26_Collision ==
    [][StepTaken /\ AtDraw /\ result'.tag = "Ok" =>
          \E touched \in {SetCells} :
              /\ \A i \in DOMAIN video_buffer :
                   /\ i \notin touched => video_buffer'[i] = video_buffer[i]
                   /\ i \in touched /\ video_buffer[i] = 0 => video_buffer'[i] = 255
                   /\ i \in touched /\ video_buffer[i] = 255 => video_buffer'[i] = 0
              /\ registers'[15] =
                     IF \E i \in touched : video_buffer[i] = 255 THEN 1 ELSE 0]_vars

\* the glyphs 0, 1, 2 drawn twice at (10, 0): the display is clear, VF = 1
C26_Witness ==
    /\ result.tag = "Ok"
    /\ program_counter = PROG_ADDR + 10
    /\ registers[15] = 1
    /\ \A i \in DOMAIN video_buffer : video_buffer[i] = 0
    /\ Loaded(DrawRom(10, 0, 15))

\* --- C27 --------------------------------------------------------------------------------

\* the cells of the set bits of the sprite at the program counter if columns and rows
\* wrap around the grid
WrappedCells ==
    {(((registers[FieldY] % 32) + rc[1]) % 32) * 64
        + (((registers[FieldX] % 64) + rc[2]) % 64) :
        rc \in {rc \in (0..(FieldN - 1)) \X (0..7) : SpriteBit(rc[1], rc[2])}}

\* C27: a step that executes a Draw succeeds, and every cell it changes is the cell
\* at column (xp + c) mod 64, row (yp + r) mod 32 of a set sprite bit at row r,
\* column c (so a bit past the edge wraps around or is dropped).
C27_DrawInGrid ==
    [][StepTaken /\ AtDraw =>
          /\ result'.tag = "Ok"
          /\ DOMAIN video_buffer' = 0..2047
          /\ \E wrapped \in {WrappedCells} :
                 \A i \in 0..2047 :
                     video_buffer'[i] # video_buffer[i] => i \in wrapped]_vars

\* one row of glyph 0 drawn at column 63 of row 0: its second bit lit the first cell
\* of row 1
C27_Witness ==
    /\ result.tag = "Ok"
    /\ program_counter = PROG_ADDR + 8
    /\ video_buffer[63] = 255
    /\ video_buffer[64] = 255
    /\ video_buffer[0] = 0
    /\ Loaded(DrawRom(255, 0, 1))

\* --- C28 --------------------------------------------------------------------------------

\* C28: in every reachable state each of the 64 x 32 display cells holds 0 or 0xFF.
C28_CellsTwoValued ==
    /\ DOMAIN video_buffer = 0..(64 * 32 - 1)
    /\ \A i \in DOMAIN video_buffer : video_buffer[i] \in {0, 255}

\* glyph 0 is on the display at (5, 5), before the 01E0 of the program clears it
C28_Witness ==
    /\ result.tag = "Ok"
    /\ program_counter = PROG_ADDR + 6
    /\ video_buffer[5 * VIDEO_BUFFER_WIDTH + 5] = 255
    /\ video_buffer[6 * VIDEO_BUFFER_WIDTH + 6] = 0
    /\ Loaded(OddRom(480))

\* --- C29 --------------------------------------------------------------------------------

\* C29: construction from a ROM of more than 3584 bytes either returns an error or
\* yields the emulator of the ROM cut to its first 3584 bytes, the glyph table in
\* place; it does not abort.
C29_LongRom ==
    result.tag \notin {"RomFile"} /\ Len(result.val) > MaxRomLen =>
        \/ result.tag = "FailedToLoadROM"
        \/ /\ result.tag = "Emulator"
           /\ DOMAIN memory = 0..(MEMORY_SIZE - 1)
           /\ \A a \in 0..(MEMORY_SIZE - 1) :
                memory[a] =
                    IF a >= PROG_ADDR THEN result.val[a - PROG_ADDR + 1]
                    ELSE IF a >= FONT_ADDR /\ a < FONT_ADDR + FONTSET_SIZE
                    THEN FONTSET[a - FONT_ADDR + 1]
                    ELSE 0

\* Emulator::new has panicked on a ROM of 3585 bytes; nothing was built
C29_Witness ==
    /\ result.tag = "Panic"
    /\ Len(result.val) = MaxRomLen + 1
    /\ result.val[1] = 255
    /\ program_counter = 0

\* --- the index register driven up to the end of its 16 bits ----------------------------------

\* how many times the program adds V0 = 255 to I = 0x0FFF: I ends at 0xFF0F
AddsOfI == 240

\* what the program adds to I after that: I ends at 0xFF73 or at 0xFFFE
LastAdds == {100, 239}

\* the accesses through I tried: F033 (BCD of V0), F255 (V0..V2 stored), F265
\* (V0..V2 loaded), D343 (a sprite of 3 rows)
AccessWords == {61491, 62037, 62053, 54083}

\* LD V0, 255; LD I, 0xFFF; ADD I, V0 (AddsOfI times); LD V2, d; ADD I, V2; the
\* access; then a halt loop
IndexRom(d, access) ==
    [i \in 1..(2 * (AddsOfI + 6)) |->
        LET k == (i + 1) \div 2
            word == IF k = 1 THEN 24576 + 255
                    ELSE IF k = 2 THEN 40960 + 4095
                    ELSE IF k <= AddsOfI + 2 THEN 61470
                    ELSE << 24576 + 2 * 256 + d,
                            61470 + 2 * 256,
                            access,
                            4096 + PROG_ADDR + 2 * (AddsOfI + 5) >>[k - AddsOfI - 2]
        IN IF i % 2 = 1 THEN word \div 256 ELSE word % 256]

IndexRoms == {IndexRom(d, access) : d \in LastAdds, access \in AccessWords}

InitIndex == InitWith(IndexRoms)

NextIndex == StepFrame \/ IdleFrame

SpecIndex == InitIndex /\ [][NextIndex]_vars

\* the instruction at the program counter, by its encoding
AtAddIndex == WordAtPc \div 4096 = 15 /\ WordAtPc % 256 = 30    \* Fx1E
AtBcd == WordAtPc \div 4096 = 15 /\ WordAtPc % 256 = 51         \* Fx33
AtStoreRegs == WordAtPc \div 4096 = 15 /\ WordAtPc % 256 = 85   \* Fx55
AtLoadRegs == WordAtPc \div 4096 = 15 /\ WordAtPc % 256 = 101   \* Fx65

\* --- C30 --------------------------------------------------------------------------------

\* C30: a step that executes ADD I, Vx, the BCD store, the register dump, the
\* register load or a Draw succeeds whatever 16-bit value I has; the BCD store
\* leaves the three digits of Vx in the cells (I + 0..2) mod 4096, the dump leaves
\* V0..Vx in the cells (I + 0..x) mod 4096, the load takes V0..Vx from them, and
\* ADD I, Vx leaves I + Vx (mod 2^16).
C30_IndexAccess ==
    [][/\ StepTaken /\ (AtAddIndex \/ AtBcd \/ AtStoreRegs \/ AtLoadRegs \/ AtDraw) =>
            result'.tag = "Ok"
       /\ StepTaken /\ AtAddIndex =>
            idx' = (idx + registers[FieldX]) % U16
       /\ StepTaken /\ AtBcd =>
            /\ memory'[idx % 4096] = registers[FieldX] \div 100
            /\ memory'[(idx + 1) % 4096] = (registers[FieldX] \div 10) % 10
            /\ memory'[(idx + 2) % 4096] = registers[FieldX] % 10
       /\ StepTaken /\ AtStoreRegs =>
            \A i \in 0..FieldX : memory'[(idx + i) % 4096] = registers[i]
       /\ StepTaken /\ AtLoadRegs =>
            \A i \in 0..FieldX : registers'[i] = memory[(idx + i) % 4096]]_vars

\* the BCD store at I = 0xFFFE has panicked in the build with overflow checks
C30_Witness ==
    /\ result.tag = "Panic"
    /\ overflow_checks
    /\ idx = U16 - 2
    /\ program_counter = PROG_ADDR + 2 * (AddsOfI + 5)
    /\ Loaded(IndexRom(239, 61491))

\* --- the program counter driven up to the end of its 16 bits --------------------------------

\* where the program has SE V0, 0x00 (taken: V0 is 0): 0xFFA, so that the skip lands
\* on 0xFFE, or 0xFFC, so that it lands on 0x000 of the next pass
SkipAts == {4090, 4092}

\* LD I, 0x050; LD [I], VF; .. LD I, 0x090; LD [I], VF (the sixteen registers, all
\* 0, stored over the 80 bytes of the glyph table), then 0x0000 up to the end of
\* memory but for SE V0, 0x00 at skip_at
SledRom(skip_at) ==
    [i \in 1..MaxRomLen |->
        IF i <= 20
        THEN Flatten(<< 41040, 65365, 41056, 65365, 41072, 65365,
                        41088, 65365, 41104, 65365 >>)[i]
        ELSE IF PROG_ADDR + i - 1 = skip_at THEN 48 ELSE 0]

SledRoms == {SledRom(skip_at) : skip_at \in SkipAts}

\* the emulator running SledRom once the glyph table is overwritten, with the
\* program counter at p
SledState(bytes, p) ==
    LET e == Emulator_new(bytes) IN
    [e EXCEPT !.memory = [a \in 0..(MEMORY_SIZE - 1) |->
                             IF a >= FONT_ADDR /\ a < FONT_ADDR + FONTSET_SIZE
                             THEN 0 ELSE e.memory[a]],
              !.idx = FONT_ADDR + 64,
              !.program_counter = p]

\* the program counter of the sixteenth pass over memory where the run is picked up
SledPc == 65472

\* the run of SledRom from construction, and the same run picked up at SledPc
InitPc ==
    /\ \E bytes \in SledRoms :
         \E e \in {Emulator_new(bytes), SledState(bytes, SledPc)} :
            /\ registers = e.registers
            /\ idx = e.idx
            /\ program_counter = e.program_counter
            /\ delay_timer = e.delay_timer
            /\ sound_timer = e.sound_timer
            /\ stack = e.stack
            /\ memory = e.memory
            /\ video_buffer = e.video_buffer
            /\ keypad = e.keypad
    /\ is_running = TRUE
    /\ result = [tag |-> "None", val |-> 0]
    /\ overflow_checks \in BOOLEAN

NextPc == StepFrame \/ IdleFrame

SpecPc == InitPc /\ [][NextPc]_vars

\* the instruction at the program counter is SE Vx, kk with Vx = kk
AtTakenSe == WordAtPc \div 4096 = 3 /\ registers[FieldX] = FieldKk

\* --- C31 --------------------------------------------------------------------------------

\* C31: no step aborts on a program-counter update, whatever 16-bit value the
\* program counter has: a step that fetches a no-op from cells PC mod 4096 and
\* (PC + 1) mod 4096 succeeds and leaves the program counter at PC + 2 modulo 4096,
\* and a step that fetches a taken skip leaves it at PC + 4 modulo 4096.
C31_PcWraps ==
    [][/\ StepTaken => result'.tag = "Ok"
       /\ StepTaken /\ Unknown(WordAtPc) =>
            program_counter' % MEMORY_SIZE = (program_counter + 2) % MEMORY_SIZE
       /\ StepTaken /\ AtTakenSe =>
            program_counter' % MEMORY_SIZE = (program_counter + 4) % MEMORY_SIZE]_vars

\* the fetch at 0xFFFE has panicked in the build with overflow checks, the skip at
\* 0xFFFA having been taken
C31_Witness ==
    /\ result.tag = "Panic"
    /\ overflow_checks
    /\ program_counter = U16 - 2
    /\ memory[FONT_ADDR] = 0
    /\ memory[4090] = 48

\* --- the key skips on chosen register values ------------------------------------------------

\* the values of Vx tried: keys of the keypad, the first value past it, the top bit,
\* the largest byte
KeyValues == {0, 5, 15, 16, 128, 255}

\* the low bytes of Ex__ tried: SKP (0x91) and SKNP (0xA1)
KeySkipOps == {145, 161}

\* LD V3, v; SKP V3 or SKNP V3; then a halt loop at 0x204 and one at 0x206
KeySkipRom(op, v) ==
    Flatten(<< 24576 + 3 * 256 + v,
               57344 + 3 * 256 + op,
               4096 + PROG_ADDR + 4,
               4096 + PROG_ADDR + 6 >>)

KeySkipRoms == {KeySkipRom(op, v) : op \in KeySkipOps, v \in KeyValues}

InitKeySkip == InitWith(KeySkipRoms)

NextKeySkip == KeyFrame \/ IdleFrame

SpecKeySkip == InitKeySkip /\ [][NextKeySkip]_vars

\* --- C32 --------------------------------------------------------------------------------

\* C32: a step that executes SKP Vx or SKNP Vx succeeds whatever value 0..255 Vx
\* holds, and leaves the program counter 2 or 4 above its value before the step.
C32_KeySkipTotal ==
    [][StepTaken /\ (AtSkipKey \/ AtSkipNoKey) =>
          /\ result'.tag = "Ok"
          /\ program_counter' \in {program_counter + 2, program_counter + 4}]_vars

\* SKNP V3 has run with V3 = 255 while key 5 was held down: the step panicked
C32_Witness ==
    /\ result.tag = "Panic"
    /\ registers[3] = 255
    /\ keypad[5] > 0
    /\ Loaded(KeySkipRom(161, 255))

\* --- the stores and loads through the index register ------------------------------------------

\* where the programs point I: free memory, the glyph table, the last two cells
StoreAddrs == {768, 80, 4094}

\* the registers the BCD programs convert
BcdRegs == {3, 15}

\* LD Vx, v; LD I, addr; LD B, Vx; then a halt loop at 0x206
BcdRom(vx, v, addr) ==
    Flatten(<< 24576 + vx * 256 + v,
               40960 + addr,
               61491 + vx * 256,
               4096 + PROG_ADDR + 6 >>)

\* the values converted at every register and address tried: one, two and three
\* digits, with and without zeros among them
BcdValues == {0, 9, 10, 99, 100, 207, 255}

\* every byte converted from V3 to free memory, and the values above at the other
\* registers and addresses
BcdRoms ==
    {BcdRom(3, v, 768) : v \in 0..(U8 - 1)}
        \cup {BcdRom(vx, v, addr) : vx \in BcdRegs, v \in BcdValues, addr \in StoreAddrs}

\* the last register of the ranges dumped and loaded
RangeEnds == {0, 1, 2, 14, 15}

\* LD V0, 0x11; LD V1, 0x22; LD V2, 0x33; LD VE, 0xEE; LD VF, 0xFF; LD I, addr;
\* LD [I], Vx; LD Vx, [I]; LD V0, 0xAA; LD V2, 0xBB; LD VF, 0xCC; LD Vx, [I]; then a
\* halt loop at 0x218
RangeRom(vx, addr) ==
    Flatten(<< 24576 + 17,
               24576 + 256 + 34,
               24576 + 2 * 256 + 51,
               24576 + 14 * 256 + 238,
               24576 + 15 * 256 + 255,
               40960 + addr,
               61525 + vx * 256,
               61541 + vx * 256,
               24576 + 170,
               24576 + 2 * 256 + 187,
               24576 + 15 * 256 + 204,
               61541 + vx * 256,
               4096 + PROG_ADDR + 24 >>)

RangeRoms == {RangeRom(vx, addr) : vx \in RangeEnds, addr \in StoreAddrs}

InitStore == InitWith(BcdRoms \cup RangeRoms)

NextStore == StepFrame \/ IdleFrame

SpecStore == InitStore /\ [][NextStore]_vars

\* the cells I .. I + count - 1 of the 4096-cell memory
CellsFromI(count) == {(idx + i) % MEMORY_SIZE : i \in 0..(count - 1)}

\* --- C33 --------------------------------------------------------------------------------

\* C33: a step that executes the BCD store of Vx = v with I + 2 within 16 bits
\* succeeds and leaves v div 100 in cell I, (v div 10) mod 10 in cell I + 1 and
\* v mod 10 in cell I + 2 (cells taken modulo 4096): three digits 0..9 whose decimal
\* value is v; the registers, the index register and every other memory cell are as
\* before the step.
C33_Bcd ==
    [][StepTaken /\ AtBcd /\ idx + 2 < U16 =>
          LET v == registers[FieldX]
              d0 == memory'[idx % MEMORY_SIZE]
              d1 == memory'[(idx + 1) % MEMORY_SIZE]
              d2 == memory'[(idx + 2) % MEMORY_SIZE]
          IN
          /\ result'.tag = "Ok"
          /\ d0 = v \div 100
          /\ d1 = (v \div 10) % 10
          /\ d2 = v % 10
          /\ {d0, d1, d2} \subseteq 0..9
          /\ 100 * d0 + 10 * d1 + d2 = v
          /\ registers' = registers
          /\ idx' = idx
          /\ \A a \in DOMAIN memory \ CellsFromI(3) : memory'[a] = memory[a]]_vars

\* VF = 207 has been stored at I = 0xFFE: 2 and 0 in the last two cells, 7 in cell 0
C33_Witness ==
    /\ result.tag = "Ok"
    /\ program_counter = PROG_ADDR + 6
    /\ registers[15] = 207
    /\ idx = 4094
    /\ memory[4094] = 2
    /\ memory[4095] = 0
    /\ memory[0] = 7
    /\ memory[1] = 0

\* --- C34 --------------------------------------------------------------------------------

\* the dump at the program counter is followed by the load of the same registers
DumpThenLoad == AtStoreRegs /\ WordAt(program_counter + 2) = WordAtPc + 16

\* C34: with I + x within 16 bits, a step that executes the dump of V0..Vx succeeds,
\* leaves Vi in cell I + i (modulo 4096) for every i in 0..x and leaves the
\* registers, the index register and every other memory cell as they were; a step
\* that executes the load of V0..Vx succeeds, leaves the value of cell I + i in Vi
\* for every i in 0..x and leaves the registers above x, the index register and the
\* memory as they were; and where a dump is followed by the load of the same
\* registers, the two steps succeed and leave every register as it was before the
\* dump.
C34_DumpLoad ==
    /\ [](InLoop /\ DumpThenLoad /\ idx + FieldX < U16 =>
            \E s1 \in {step(Self, 0)} :
                /\ s1.res = "Ok"
                /\ \E s2 \in {step(s1.emu, 0)} :
                     /\ s2.res = "Ok"
                     /\ s2.emu.registers = registers
                     /\ s2.emu.idx = idx)
    /\ [][/\ StepTaken /\ AtStoreRegs /\ idx + FieldX < U16 =>
               /\ result'.tag = "Ok"
               /\ \A i \in 0..FieldX : memory'[(idx + i) % MEMORY_SIZE] = registers[i]
               /\ \A a \in DOMAIN memory \ CellsFromI(FieldX + 1) : memory'[a] = memory[a]
               /\ registers' = registers
               /\ idx' = idx
          /\ StepTaken /\ AtLoadRegs /\ idx + FieldX < U16 =>
               /\ result'.tag = "Ok"
               /\ \A i \in 0..FieldX : registers'[i] = memory[(idx + i) % MEMORY_SIZE]
               /\ \A i \in (FieldX + 1)..(NUM_REGISTERS - 1) : registers'[i] = registers[i]
               /\ memory' = memory
               /\ idx' = idx]_vars

\* V0..V2 dumped at 0xFFE, then V0, V2 and VF overwritten, then V0..V2 loaded: V0
\* and V2 are back, VF is not, and the dump lies in cells 0xFFE, 0xFFF, 0x000 only
C34_Witness ==
    /\ result.tag = "Ok"
    /\ program_counter = PROG_ADDR + 24
    /\ registers[0] = 17
    /\ registers[1] = 34
    /\ registers[2] = 51
    /\ registers[15] = 204
    /\ memory[4094] = 17
    /\ memory[4095] = 34
    /\ memory[0] = 51
    /\ memory[1] = 0
    /\ WordAt(PROG_ADDR + 12) = 61525 + 2 * 256

\* --- the jumps ------------------------------------------------------------------------------

\* the value of V0 and the jump tried: JP 0x208, JP 0xFFE, JP V0, 0x200 with V0 = 8,
\* JP V0, 0xF00 with V0 = 254 (both land on a halt loop), JP V0, 0xFFF with V0 = 255
\* (0x10FE, past the 12 bits)
Jumps == {<< 0, 4616 >>, << 0, 8190 >>, << 8, 45568 >>, << 254, 48896 >>, << 255, 49151 >>}

\* LD V0, v; LD I, 0x050; DRW V1, V1, 5; CALL 0x20A; a halt loop at 0x208; the jump
\* at 0x20A; then 0x0000 up to a halt loop at 0xFFE
JumpRom(v, jump) ==
    [i \in 1..MaxRomLen |->
        IF i <= 12
        THEN Flatten(<< 24576 + v, 41040, 53525, 8192 + PROG_ADDR + 10,
                        4096 + PROG_ADDR + 8, jump >>)[i]
        ELSE IF i = MaxRomLen - 1 THEN 31
        ELSE IF i = MaxRomLen THEN 254
        ELSE 0]

JumpRoms == {JumpRom(j[1], j[2]) : j \in Jumps}

InitJump == InitWith(JumpRoms)

NextJump == StepFrame \/ IdleFrame

SpecJump == InitJump /\ [][NextJump]_vars

\* the instruction at the program counter, by its encoding
AtJump == WordAtPc \div 4096 = 1           \* 1nnn
AtJumpOffset == WordAtPc \div 4096 = 11    \* Bnnn

\* --- C35 --------------------------------------------------------------------------------

\* C35: a step that executes JP nnn succeeds and leaves the program counter at nnn;
\* a step that executes JP V0, nnn succeeds and leaves it at V0 + nnn; both leave
\* the call stack, the registers, the index register, the memory and the display as
\* they were.
C35_Jump ==
    [][/\ StepTaken /\ AtJump => program_counter' = FieldNnn
       /\ StepTaken /\ AtJumpOffset => program_counter' = registers[0] + FieldNnn
       /\ StepTaken /\ (AtJump \/ AtJumpOffset) =>
            /\ result'.tag = "Ok"
            /\ stack' = stack
            /\ registers' = registers
            /\ idx' = idx
            /\ memory' = memory
            /\ video_buffer' = video_buffer]_vars

\* JP V0, 0xFFF has run with V0 = 255, one address on the stack and a glyph on the
\* display: the program counter is 0x10FE
C35_Witness ==
    /\ result.tag = "Ok"
    /\ program_counter = 4350
    /\ registers[0] = 255
    /\ stack.ptr = 1
    /\ video_buffer[0] = 255
    /\ Loaded(JumpRom(255, 49151))

\* --- the instructions without a flag ----------------------------------------------------------

\* the low nibbles of 8xy_ tried: OR, AND, XOR
LogicOps == {1, 2, 3}

\* where the programs that add to I point it first
IndexStarts == {0, 768, 4095}

\* LD VF, 7; LD Vx, a; LD I, addr; the instruction; then a halt loop at 0x208
PlainRom(vx, a, addr, word) ==
    Flatten(<< 24576 + 15 * 256 + 7,
               24576 + vx * 256 + a,
               40960 + addr,
               word,
               4096 + PROG_ADDR + 8 >>)

\* OR, AND, XOR on every pair of operands, ADD Vx, kk on the same pairs, ADD I, Vx
\* on their first values from every start of I
PlainRoms ==
    {AluRom(lo, vx, vy, ab[1], ab[2]) :
        lo \in LogicOps, vx \in DestRegs, vy \in SrcRegs, ab \in Operands}
        \cup {PlainRom(vx, ab[1], 768, 28672 + vx * 256 + ab[2]) :
                 vx \in DestRegs, ab \in Operands}
        \cup {PlainRom(vx, ab[1], addr, 61470 + vx * 256) :
                 vx \in DestRegs, ab \in Operands, addr \in IndexStarts}

InitPlain == InitWith(PlainRoms)

NextPlain == StepFrame \/ IdleFrame

SpecPlain == InitPlain /\ [][NextPlain]_vars

\* the instruction at the program counter, by its encoding
AtAddByte == WordAtPc \div 4096 = 7                                \* 7xkk
AtLogic == WordAtPc \div 4096 = 8 /\ WordAtPc % 16 \in LogicOps    \* 8xy1, 8xy2, 8xy3

\* --- C36 --------------------------------------------------------------------------------

====
